---- MODULE Spec2Model ----
(***************************************************************************)
(* Model of the application manager's deployment orchestrator              *)
(* (internal/pkg/server/application/manager.go) and of the parametrization *)
(* engine it calls (internal/pkg/entities/parameters.go).                  *)
(*                                                                         *)
(* One Deploy call is followed from the request to its return value.  The  *)
(* remote collaborators (descriptor/instance store, hand-off queue) are    *)
(* the environment: every call to them answers ok, fails, or stalls.       *)
(*                                                                         *)
(* The inputs are a deploy request and the descriptor registered under its *)
(* descriptor id.  They are drawn from two families: one varies the        *)
(* parameters of descriptor and request, the other the outbound            *)
(* interfaces, rules and connections.                                      *)
(*                                                                         *)
(* SpecUndeploy follows one Undeploy call the same way, from the fetch of  *)
(* the instance and its connections to the send of the undeploy command.   *)
(* SpecCopy follows CreateParametrizedDescriptor on the references a       *)
(* descriptor holds: which maps, slices and structs the copy allocates and *)
(* which it takes over from the descriptor.                                *)
(* SpecParametrize follows CreateParametrizedDescriptor on the values of   *)
(* a descriptor, SpecAddDescriptor one AddAppDescriptor call with the      *)
(* validation of the descriptor, SpecFair is Spec with the goroutines of   *)
(* checkConnections scheduled, and SpecCalls interleaves Deploy calls and  *)
(* a RemoveAppDescriptor call on one application store.                    *)
(***************************************************************************)
EXTENDS Integers, Sequences, FiniteSets, TLC

\* ------------------------------------------------------------------ bounds

\* Longest list of outbound connections in a deploy request.
MaxConns == 2
\* Longest list of instance parameters in a deploy request.
MaxReqParams == 2
\* Most connections into, and most out of, the instance to undeploy.
MaxPeers == 2
\* Most service groups of a descriptor to add, and most services of a group.
MaxGroups == 2
MaxServices == 2
\* Longest deploy_after list of a service, and most rules of a descriptor to
\* add.
MaxDeployAfter == 2
MaxRules == 1
\* Environment variables of a descriptor.
MaxVars == 1
\* Deploy calls running at the same time.
MaxCalls == 2

\* ------------------------------------------------------- program constants

RequiredParamNotFilled == "Required parameter not filled"
RequiredOutboundNotFilled == "Required outbound not filled"
NoInboundFound == "no inbound interface found"
InstanceNotFound == "instance not found"
InboundConnectionsLeft ==
    "can not undeploy the instance, it has inbound connections. User confirmation required"

\* ------------------------------------------------------------ value spaces

OutboundNames == {"o1", "o2"}
TargetIds == {"t1", "t2"}
InboundNames == {"in1", "in2"}
ParamValues == {"true", "a"}
NewInstanceId == "inst-1"
QUEUED == "QUEUED"

SeqsUpTo(S, n) == UNION {[1..k -> S] : k \in 0..n}

\* derrors / gRPC errors: a code, the message and the WithParams list.
NoErr == [code |-> "OK", msg |-> "", params |-> <<>>]
Err(code, msg, params) == [code |-> code, msg |-> msg, params |-> params]
IsErr(e) == e.code # "OK"

\* grpc_application_manager_go.ConnectionRequest
ConnectionRequests ==
    [SourceOutboundName : OutboundNames, TargetInstanceId : TargetIds,
     TargetInboundName : InboundNames]

\* grpc_application_go.AppParameter definitions a descriptor may declare.
ParamP1(req) == [Name |-> "p1", Type |-> "BOOLEAN", Required |-> req,
                 Path |-> "groups.0.specs.multi_cluster_replica",
                 EnumValues |-> <<>>]
ParamP2(req) == [Name |-> "p2", Type |-> "ENUM", Required |-> req,
                 Path |-> "name", EnumValues |-> <<"a", "b">>]
\* A descriptor declares each parameter not at all, as optional or as required.
DescriptorParameterLists ==
    {a \o b : a \in {<<>>, <<ParamP1(FALSE)>>, <<ParamP1(TRUE)>>},
              b \in {<<>>, <<ParamP2(FALSE)>>, <<ParamP2(TRUE)>>}}

\* grpc_application_go.OutboundNetworkInterface
OutboundIf(name, req) == [Name |-> name, Required |-> req]
OutboundInterfaceLists ==
    {a \o b : a \in {<<>>, <<OutboundIf("o1", FALSE)>>, <<OutboundIf("o1", TRUE)>>},
              b \in {<<>>, <<OutboundIf("o2", FALSE)>>, <<OutboundIf("o2", TRUE)>>}}

\* grpc_application_go.SecurityRule, the fields Deploy reads.
Rule(out, svc) == [OutboundNetInterface |-> out, TargetServiceName |-> svc]
RuleLists ==
    {<<>>, <<Rule("", "s0")>>, <<Rule("o1", "s1")>>,
     <<Rule("o1", "s1"), Rule("o1", "s2")>>}

\* grpc_application_go.AppDescriptor before it is fetched.
EmptyDescriptor ==
    [Name |-> "", MultiClusterReplica |-> FALSE, Parameters |-> <<>>,
     OutboundNetInterfaces |-> <<>>, Rules |-> <<>>]

\* grpc_application_go.InstanceParameter
InstanceParameters == [ParameterName : {"p1", "p2"}, Value : ParamValues]
\* InstanceParameterList pointer: nil, or a list.
ParameterLists ==
    {[isNil |-> TRUE, Parameters |-> <<>>]} \cup
    {[isNil |-> FALSE, Parameters |-> ps] :
        ps \in SeqsUpTo(InstanceParameters, MaxReqParams)}

NilParameters == [isNil |-> TRUE, Parameters |-> <<>>]

\* Inputs that vary the parameters: at most one connection, from "o1" to the
\* inbound "in1" of "t1".
ParameterRequests ==
    [Parameters : ParameterLists,
     OutboundConnections :
        {<<>>, <<[SourceOutboundName |-> "o1", TargetInstanceId |-> "t1",
                  TargetInboundName |-> "in1"]>>}]
ParameterDescriptors ==
    [Name : {"app"}, MultiClusterReplica : {FALSE},
     Parameters : DescriptorParameterLists,
     OutboundNetInterfaces : {<<>>},
     Rules : {<<>>, <<Rule("o1", "s1")>>}]

\* Inputs that vary the connections: no parameters declared or given.
ConnectionRequestLists == SeqsUpTo(ConnectionRequests, MaxConns)
ConnectionDeployRequests ==
    [Parameters : {NilParameters}, OutboundConnections : ConnectionRequestLists]
ConnectionDescriptors ==
    [Name : {"app"}, MultiClusterReplica : {FALSE},
     Parameters : {<<>>},
     OutboundNetInterfaces : OutboundInterfaceLists,
     Rules : RuleLists]

\* --------------------------------------------------- parametrization engine

\* A JSON value of the serialized descriptor: a boolean or a string.
JBool(b) == [kind |-> "bool", b |-> b, s |-> ""]
JString(s) == [kind |-> "string", b |-> FALSE, s |-> s]
NoValue == [kind |-> "null", b |-> FALSE, s |-> ""]

\* The paths of the serialized descriptor a parameter may address, and the Go
\* type of the field behind each.
FieldKind(path) ==
    IF path = "groups.0.specs.multi_cluster_replica" THEN "bool" ELSE "string"

\* strconv.ParseBool
ParseBoolTrue == {"1", "t", "T", "TRUE", "true", "True"}
ParseBoolFalse == {"0", "f", "F", "FALSE", "false", "False"}

NilParametrized ==
    [isNil |-> TRUE, AppInstanceId |-> "", Name |-> "",
     MultiClusterReplica |-> FALSE, Rules |-> <<>>]

\* The fields copySecurityRule sets: the outbound interface is not among them.
copySecurityRuleFields(rule) ==
    [OutboundNetInterface |-> "", TargetServiceName |-> rule.TargetServiceName]

\* The rules and groups are copied field by field; copyServiceGroup leaves
\* the deployment specs of the group out, so the flag of the copy is unset.
newParametrizedDescriptorFromDescriptor(descriptor) ==
    [isNil |-> FALSE, AppInstanceId |-> "", Name |-> descriptor.Name,
     MultiClusterReplica |-> FALSE,
     Rules |-> [i \in 1..Len(descriptor.Rules) |->
                    copySecurityRuleFields(descriptor.Rules[i])]]

\* Variant: an undeclared name is reported as an invalid argument.
findParameterInvalidArgument(descriptor, parameter) ==
    LET ps == descriptor.Parameters
        hits == {i \in 1..Len(ps) : ps[i].Name = parameter.ParameterName}
    IN  IF hits = {}
        THEN [err |-> Err("InvalidArgument",
                          "Instance parameter not found. Descriptor has no parameters",
                          <<>>),
              def |-> ParamP1(FALSE)]
        ELSE [err |-> NoErr,
              def |-> ps[CHOOSE i \in hits : \A j \in hits : i <= j]]

findParameterInDescriptor(descriptor, parameter) ==
    LET ps == descriptor.Parameters
        hits == {i \in 1..Len(ps) : ps[i].Name = parameter.ParameterName}
    IN  IF Len(ps) = 0
        THEN [err |-> Err("InvalidArgument",
                          "Instance parameter not found. Descriptor has no parameters",
                          <<>>),
              def |-> ParamP1(FALSE)]
        ELSE IF hits = {}
        THEN [err |-> Err("NotFound",
                          "Instance parameter not found in descriptor definition",
                          <<parameter.ParameterName>>),
              def |-> ParamP1(FALSE)]
        ELSE [err |-> NoErr,
              def |-> ps[CHOOSE i \in hits : \A j \in hits : i <= j]]

\* Variant: the value of a BOOLEAN parameter is passed on as the string given.
validateInstanceParameterRaw(paramDefinition, parameter) ==
    CASE paramDefinition.Type = "ENUM" ->
            IF \E i \in 1..Len(paramDefinition.EnumValues) :
                    paramDefinition.EnumValues[i] = parameter.Value
            THEN [err |-> NoErr, value |-> JString(parameter.Value)]
            ELSE [err |-> Err("InvalidArgument", "Invalid parameter value",
                              <<"parameter", parameter.ParameterName,
                                "value", parameter.Value>>),
                  value |-> NoValue]
      [] OTHER -> [err |-> NoErr, value |-> JString(parameter.Value)]

validateInstanceParameter(paramDefinition, parameter) ==
    CASE paramDefinition.Type = "BOOLEAN" ->
            IF parameter.Value \in ParseBoolTrue
            THEN [err |-> NoErr, value |-> JBool(TRUE)]
            ELSE IF parameter.Value \in ParseBoolFalse
            THEN [err |-> NoErr, value |-> JBool(FALSE)]
            ELSE [err |-> Err("Internal", "strconv.ParseBool: invalid syntax", <<>>),
                  value |-> NoValue]
      [] paramDefinition.Type = "ENUM" ->
            IF \E i \in 1..Len(paramDefinition.EnumValues) :
                    paramDefinition.EnumValues[i] = parameter.Value
            THEN [err |-> NoErr, value |-> JString(parameter.Value)]
            ELSE [err |-> Err("InvalidArgument", "Invalid parameter value",
                              <<"parameter", parameter.ParameterName,
                                "value", parameter.Value>>),
                  value |-> NoValue]
      [] OTHER -> [err |-> NoErr, value |-> JString(parameter.Value)]

\* json.Marshal of the parametrized descriptor, as the addressable leaves.
Marshal(pd) ==
    [path \in {"name", "groups.0.specs.multi_cluster_replica"} |->
        IF path = "name" THEN JString(pd.Name) ELSE JBool(pd.MultiClusterReplica)]

\* sjson.Set at the definition's path; it refuses an empty path.
applyParameter(jsonParamDescriptor, paramDefinition, value) ==
    IF paramDefinition.Path = ""
    THEN [err |-> Err("Internal", "path cannot be empty", <<>>),
          doc |-> jsonParamDescriptor]
    ELSE [err |-> NoErr,
          doc |-> [jsonParamDescriptor EXCEPT ![paramDefinition.Path] = value]]

\* json.Unmarshal back into the parametrized descriptor: a value of the wrong
\* JSON type for its field is an error.
UnmarshalFails(doc) == \E path \in DOMAIN doc : doc[path].kind # FieldKind(path)
Unmarshal(doc, pd) ==
    [pd EXCEPT !.Name = doc["name"].s,
               !.MultiClusterReplica = doc["groups.0.specs.multi_cluster_replica"].b]

\* The loop of CreateParametrizedDescriptor over the instance parameters,
\* from the i-th on: the first failing parameter ends it.
RECURSIVE ApplyParameters(_, _, _, _)
ApplyParameters(descriptor, doc, params, i) ==
    IF i > Len(params) THEN [err |-> NoErr, doc |-> doc]
    ELSE LET found == findParameterInDescriptor(descriptor, params[i])
             valid == validateInstanceParameter(found.def, params[i])
             applied == applyParameter(doc, found.def, valid.value)
         IN  IF IsErr(found.err) THEN [err |-> found.err, doc |-> doc]
             ELSE IF IsErr(valid.err) THEN [err |-> valid.err, doc |-> doc]
             ELSE IF IsErr(applied.err) THEN [err |-> applied.err, doc |-> doc]
             ELSE ApplyParameters(descriptor, applied.doc, params, i + 1)

\* Variant: a failed parameter returns the descriptor as patched so far.
CreateParametrizedDescriptorPartial(descriptor, parameters) ==
    LET parametrized == newParametrizedDescriptorFromDescriptor(descriptor)
    IN  IF parameters.isNil \/ Len(parameters.Parameters) = 0
        THEN [err |-> NoErr, pd |-> parametrized]
        ELSE LET r == ApplyParameters(descriptor, Marshal(parametrized),
                                      parameters.Parameters, 1)
             IN  IF UnmarshalFails(r.doc)
                 THEN [err |-> Err("Internal", "json: cannot unmarshal", <<>>),
                       pd |-> NilParametrized]
                 ELSE [err |-> r.err, pd |-> Unmarshal(r.doc, parametrized)]

CreateParametrizedDescriptor(descriptor, parameters) ==
    LET parametrized == newParametrizedDescriptorFromDescriptor(descriptor)
    IN  IF parameters.isNil \/ Len(parameters.Parameters) = 0
        THEN [err |-> NoErr, pd |-> parametrized]
        ELSE LET r == ApplyParameters(descriptor, Marshal(parametrized),
                                      parameters.Parameters, 1)
             IN  IF IsErr(r.err) THEN [err |-> r.err, pd |-> NilParametrized]
                 ELSE IF UnmarshalFails(r.doc)
                 THEN [err |-> Err("Internal", "json: cannot unmarshal", <<>>),
                       pd |-> NilParametrized]
                 ELSE [err |-> NoErr, pd |-> Unmarshal(r.doc, parametrized)]

\* --------------------------------------------------- checks made by Deploy

\* The deploy parameter names, nil list included.
DeployParamNames(params) ==
    IF params.isNil THEN {}
    ELSE {params.Parameters[i].ParameterName : i \in 1..Len(params.Parameters)}

\* The error checkAllRequiredParametersAreFilled builds for a missing parameter.
RequiredParamError(name) == Err("FailedPrecondition", RequiredParamNotFilled, <<>>)

checkAllRequiredParametersAreFilled(d, params) ==
    LET missing == {i \in 1..Len(d.Parameters) :
                        /\ d.Parameters[i].Required
                        /\ d.Parameters[i].Name \notin DeployParamNames(params)}
    IN  IF missing = {} THEN NoErr
        ELSE RequiredParamError(
                d.Parameters[CHOOSE i \in missing : \A j \in missing : i <= j].Name)

\* Variant: the loop runs to its end and reports the last unfilled outbound.
checkRequiredOutboundsLast(conns, outboundInterfaces) ==
    LET sources == {conns[i].SourceOutboundName : i \in 1..Len(conns)}
        missing == {i \in 1..Len(outboundInterfaces) :
                        /\ outboundInterfaces[i].Required
                        /\ outboundInterfaces[i].Name \notin sources}
    IN  IF missing = {} THEN NoErr
        ELSE Err("FailedPrecondition", RequiredOutboundNotFilled,
                 <<outboundInterfaces[CHOOSE i \in missing :
                                        \A j \in missing : i >= j].Name>>)

\* checkConnections, step 1: the first required outbound no connection uses.
checkRequiredOutbounds(conns, outboundInterfaces) ==
    LET sources == {conns[i].SourceOutboundName : i \in 1..Len(conns)}
        missing == {i \in 1..Len(outboundInterfaces) :
                        /\ outboundInterfaces[i].Required
                        /\ outboundInterfaces[i].Name \notin sources}
    IN  IF missing = {} THEN NoErr
        ELSE Err("FailedPrecondition", RequiredOutboundNotFilled,
                 <<outboundInterfaces[CHOOSE i \in missing :
                                        \A j \in missing : i <= j].Name>>)

\* checkConnections: the map from target instance id to the inbound names
\* requested on it, in the order of the connections.
RECURSIVE InboundsOf(_, _, _)
InboundsOf(conns, target, i) ==
    IF i > Len(conns) THEN <<>>
    ELSE (IF conns[i].TargetInstanceId = target
          THEN <<conns[i].TargetInboundName>> ELSE <<>>)
         \o InboundsOf(conns, target, i + 1)

\* Variant: a later connection to an instance replaces the names collected.
BuildInstanceListOverwrite(conns) ==
    [t \in {conns[i].TargetInstanceId : i \in 1..Len(conns)} |->
        LET hits == {i \in 1..Len(conns) : conns[i].TargetInstanceId = t}
        IN  <<conns[CHOOSE i \in hits : \A j \in hits : i >= j].TargetInboundName>>]

BuildInstanceList(conns) ==
    [t \in {conns[i].TargetInstanceId : i \in 1..Len(conns)} |->
        InboundsOf(conns, t, 1)]

\* CheckInboundResponse
Response(id, inbound, result) ==
    [InstanceId |-> id, InboundName |-> inbound, Result |-> result]

\* Variant: only the first requested inbound name is looked for.
InboundResponseFirstName(instanceID, inboundNames, found, declared) ==
    IF ~found THEN Response(instanceID, "", FALSE)
    ELSE IF inboundNames # <<>> /\ inboundNames[1] \notin declared
    THEN Response(instanceID, inboundNames[1], FALSE)
    ELSE Response(instanceID, "", TRUE)

\* checkInbounds after the lookup: the response for an instance, given whether
\* the lookup succeeded and the inbound interfaces the instance declares.
InboundResponse(instanceID, inboundNames, found, declared) ==
    LET missing == {i \in 1..Len(inboundNames) : inboundNames[i] \notin declared}
    IN  IF ~found THEN Response(instanceID, "", FALSE)
        ELSE IF missing # {}
        THEN Response(instanceID,
                      inboundNames[CHOOSE i \in missing : \A j \in missing : i <= j],
                      FALSE)
        ELSE Response(instanceID, "", TRUE)

\* Variant: the final response is sent whatever globalResult is.
checkInboundsSendsUnguarded(instanceID, inboundNames, found, declared) ==
    LET first == InboundResponse(instanceID, inboundNames, found, declared)
    IN  IF ~found THEN <<first>>
        ELSE (IF ~first.Result THEN <<first>> ELSE <<>>)
                \o <<Response(instanceID, "", TRUE)>>

\* checkInbounds after the lookup: the sends on the channel, in order.  The
\* lookup error is sent and the goroutine returns; the loop sends the first
\* missing name, clears globalResult and breaks; the final response is sent
\* only if globalResult is still true.
checkInboundsSends(instanceID, inboundNames, found, declared) ==
    LET first == InboundResponse(instanceID, inboundNames, found, declared)
        globalResult == first.Result
    IN  IF ~found THEN <<first>>
        ELSE (IF ~first.Result THEN <<first>> ELSE <<>>)
                \o (IF globalResult THEN <<Response(instanceID, "", TRUE)>> ELSE <<>>)

\* Variant: every failed result is reported as a missing inbound interface.
ResultErrorAlwaysInbound(result) ==
    Err("FailedPrecondition", NoInboundFound,
        <<result.InstanceId, result.InboundName>>)

\* checkConnections after the barrier: the first failed result of the channel.
ResultError(result) ==
    IF result.InboundName # ""
    THEN Err("FailedPrecondition", NoInboundFound,
             <<result.InstanceId, result.InboundName>>)
    ELSE Err("FailedPrecondition", InstanceNotFound, <<result.InstanceId>>)

\* Variant: only the first result of the channel is inspected.
DrainFirstResponse(ch) ==
    IF ch = <<>> \/ ch[1].Result THEN NoErr ELSE ResultError(ch[1])

DrainResponses(ch) ==
    LET failed == {i \in 1..Len(ch) : ~ch[i].Result}
    IN  IF failed = {} THEN NoErr
        ELSE ResultError(ch[CHOOSE i \in failed : \A j \in failed : i <= j])

\* grpc_application_network_go.ConnectionInstance, or the nil pointer a slot of
\* the slice holds until it is assigned.
NilConnection ==
    [isNil |-> TRUE, SourceInstanceName |-> "", TargetInstanceId |-> "",
     InboundName |-> "", OutboundName |-> ""]

\* The service owning an outbound interface: the target service of the last
\* rule naming it, "" when there is none.
SourceInstanceName(rules, outbound) ==
    LET hits == {i \in 1..Len(rules) : rules[i].OutboundNetInterface = outbound}
    IN  IF hits = {} THEN ""
        ELSE rules[CHOOSE i \in hits : \A j \in hits : i >= j].TargetServiceName

\* The slot of the connection slice for one connection request.
ConnectionSlot(rules, connectionRequest) ==
    LET name == SourceInstanceName(rules, connectionRequest.SourceOutboundName)
    IN  IF name = "" THEN NilConnection
        ELSE [isNil |-> FALSE, SourceInstanceName |-> name,
              TargetInstanceId |-> connectionRequest.TargetInstanceId,
              InboundName |-> connectionRequest.TargetInboundName,
              OutboundName |-> connectionRequest.SourceOutboundName]

\* Deploy: the slice is made with one slot per request and filled by index.
ResolveConnections(rules, conns) ==
    [i \in 1..Len(conns) |-> ConnectionSlot(rules, conns[i])]

\* ------------------------------------------------------- external calls

\* The call sites of Deploy whose context carries DefaultTimeout.
HasTimeout(op) ==
    op \in {"GetAppDescriptor", "AddAppInstance", "AddParametrizedDescriptor",
            "UpdateAppInstance", "Send"}

\* What the remote side does with a call: answer, fail, or never answer.
Outcomes == {"ok", "err", "stall"}

\* A call returns unless it stalls under a context without deadline.
Returns(op, outcome) == outcome # "stall" \/ HasTimeout(op)

\* The error a returning call hands back.
CallError(op, outcome) ==
    CASE outcome = "ok" -> NoErr
      [] outcome = "err" -> Err("Internal", op, <<>>)
      [] OTHER -> Err("DeadlineExceeded", op, <<>>)

Call(op, arg, outcome) ==
    [op |-> op, arg |-> arg, external |-> TRUE, bounded |-> HasTimeout(op),
     ok |-> (outcome = "ok")]
Step(op, ok) ==
    [op |-> op, arg |-> "", external |-> FALSE, bounded |-> TRUE, ok |-> ok]

\* ------------------------------------------------------------------- state

VARIABLES
    req,              \* the DeployRequest
    stored,           \* store: the descriptor registered under the request's id
    pc,               \* the statement of Deploy to execute next
    desc,             \* the descriptor GetAppDescriptor returned
    instanceList,     \* checkConnections: target instance id -> inbound names
    g,                \* the checkInbounds goroutine of each target instance
    respond,          \* the channel of CheckInboundResponse
    parametrizedDesc, \* the parametrized descriptor
    instance,         \* the instance AddAppInstance returned
    connections,      \* the connection slice of the scheduling command
    err,              \* the error of the step that failed
    ret,              \* what Deploy returned
    trace,            \* the steps and external calls made, in order
    instances,        \* store: ids of the application instances
    parametrized,     \* store: instance ids with a parametrized descriptor
    queue,            \* hand-off queue: the commands sent
    undeploy,         \* one Undeploy call and the network store it reads
    copy,             \* one CreateParametrizedDescriptor call on the heap
    parametrize,      \* one CreateParametrizedDescriptor call and what it returns
    addDescriptor,    \* one AddAppDescriptor call and the descriptor store
    calls             \* concurrent Deploy and RemoveAppDescriptor calls and the stores

vars == <<req, stored, pc, desc, instanceList, g, respond, parametrizedDesc, instance,
          connections, err, ret, trace, instances, parametrized, queue,
          undeploy, copy, parametrize, addDescriptor, calls>>

\* The Undeploy call.
undeployRequest == undeploy.request       \* the UndeployRequest
network == undeploy.network               \* network store: connections of the instance
upc == undeploy.pc                        \* the statement of Undeploy to execute next
expandInstance == undeploy.expandInstance \* the instance, expanded with its connections
conn == undeploy.conn                     \* the position of the range loop under way
uret == undeploy.ret                      \* what Undeploy returned

\* The CreateParametrizedDescriptor call.
shape == copy.shape       \* which collections the descriptor to parametrize holds
heap == copy.heap         \* address -> the map, slice or struct stored there
original == copy.original \* the AppDescriptor given to the call
copied == copy.copied     \* the ParametrizedDescriptor it builds
cpc == copy.pc            \* the statement of the call to execute next

\* The variables only Deploy writes.
deployVars == <<req, stored, pc, desc, instanceList, g, respond, parametrizedDesc,
                instance, connections, err, ret, parametrized>>

NoGoroutine == [state |-> "none", found |-> FALSE, declared |-> {},
                resp |-> Response("", "", FALSE), sends |-> <<>>]
NoInstance == [AppInstanceId |-> "", Rules |-> <<>>]
NoResponse == [AppInstanceId |-> "", Status |-> ""]
NotReturned == [done |-> FALSE, err |-> NoErr, resp |-> NoResponse]
NoExpandInstance ==
    [AppInstanceId |-> "", InboundConnections |-> <<>>, OutboundConnections |-> <<>>]
UndeployNotReturned == [done |-> FALSE, err |-> NoErr]

\* No Undeploy call is under way: there is no request, and nothing to return.
UndeployIdle == undeploy = [pc |-> "idle"]

\* The nil pointer, nil map and nil slice.
Nil == <<"nil", "">>

\* An AppDescriptor or ParametrizedDescriptor: the address of each collection.
NoRoot ==
    [Labels |-> Nil, EnvironmentVariables |-> Nil, ConfigurationOptions |-> Nil,
     Rules |-> Nil, Groups |-> Nil]

\* No descriptor is being copied: there is no descriptor, and no heap to hold it.
CopyIdle == copy = [pc |-> "idle"]

\* No descriptor is being parametrized on its own, and none is being added.
ParametrizeIdle == parametrize = [pc |-> "idle"]
AddDescriptorIdle == addDescriptor = [pc |-> "idle"]
CallsIdle == calls = [pc |-> "idle"]

Init ==
    /\ \/ req \in ParameterRequests /\ stored \in ParameterDescriptors
       \/ req \in ConnectionDeployRequests /\ stored \in ConnectionDescriptors
    /\ pc = "GetAppDescriptor"
    /\ desc = EmptyDescriptor
    /\ instanceList = <<>>
    /\ g = [t \in TargetIds |-> NoGoroutine]
    /\ respond = <<>>
    /\ parametrizedDesc = NilParametrized
    /\ instance = NoInstance
    /\ connections = <<>>
    /\ err = NoErr
    /\ ret = NotReturned
    /\ trace = <<>>
    /\ instances = {}
    /\ parametrized = {}
    /\ queue = <<>>
    /\ UndeployIdle
    /\ CopyIdle
    /\ ParametrizeIdle
    /\ AddDescriptorIdle
    /\ CallsIdle

\* return nil, e
ReturnError(e) ==
    /\ pc' = "done"
    /\ ret' = [done |-> TRUE, err |-> e, resp |-> NoResponse]

\* ------------------------------------------------------------------ Deploy

\* Retrieve descriptor by descriptorID.
DeployGetAppDescriptor ==
    /\ pc = "GetAppDescriptor"
    /\ \E outcome \in Outcomes :
        /\ trace' = Append(trace, Call("GetAppDescriptor", "", outcome))
        /\ IF outcome = "ok"
           THEN /\ desc' = stored
                /\ pc' = "checkParameters"
                /\ UNCHANGED ret
           ELSE /\ ReturnError(CallError("GetAppDescriptor", outcome))
                /\ UNCHANGED desc
    /\ UNCHANGED <<req, stored, instanceList, g, respond, parametrizedDesc, instance,
                   connections, err, instances, parametrized, queue>>
    /\ UNCHANGED <<undeploy, copy, parametrize, addDescriptor, calls>>

\* Variant: a missing required parameter is noted and Deploy goes on.
DeployCheckParametersLogged ==
    /\ pc = "checkParameters"
    /\ LET e == checkAllRequiredParametersAreFilled(desc, req.Parameters)
       IN  trace' = Append(trace, Step("checkAllRequiredParametersAreFilled",
                                       ~IsErr(e)))
    /\ pc' = "checkConnections"
    /\ UNCHANGED <<req, stored, desc, instanceList, g, respond, parametrizedDesc, instance,
                   connections, err, ret, instances, parametrized, queue>>
    /\ UNCHANGED <<undeploy, copy, parametrize, addDescriptor, calls>>

\* check if all required params are filled
DeployCheckParameters ==
    /\ pc = "checkParameters"
    /\ LET e == checkAllRequiredParametersAreFilled(desc, req.Parameters)
       IN  /\ trace' = Append(trace, Step("checkAllRequiredParametersAreFilled",
                                          ~IsErr(e)))
           /\ IF IsErr(e) THEN ReturnError(e)
              ELSE pc' = "checkConnections" /\ UNCHANGED ret
    /\ UNCHANGED <<req, stored, desc, instanceList, g, respond, parametrizedDesc, instance,
                   connections, err, instances, parametrized, queue>>
    /\ UNCHANGED <<undeploy, copy, parametrize, addDescriptor, calls>>

\* checkConnections up to the launch of the goroutines: the required outbounds,
\* the map of inbounds per instance id, the channel and the wait group.
CheckConnectionsLaunch ==
    /\ pc = "checkConnections"
    /\ LET e == checkRequiredOutbounds(req.OutboundConnections,
                                       desc.OutboundNetInterfaces)
           list == BuildInstanceList(req.OutboundConnections)
       IN  /\ trace' = Append(trace, Step("checkRequiredOutbounds", ~IsErr(e)))
           /\ IF IsErr(e)
              THEN /\ ReturnError(e)
                   /\ UNCHANGED <<instanceList, g>>
              ELSE /\ instanceList' = list
                   /\ g' = [t \in TargetIds |->
                               IF t \in DOMAIN list
                               THEN [NoGoroutine EXCEPT !.state = "running"]
                               ELSE NoGoroutine]
                   /\ pc' = "wait"
                   /\ UNCHANGED ret
    /\ UNCHANGED <<req, stored, desc, respond, parametrizedDesc, instance, connections,
                   err, instances, parametrized, queue>>
    /\ UNCHANGED <<undeploy, copy, parametrize, addDescriptor, calls>>

\* checkInbounds: the lookup of the target instance and the check of its
\* inbounds; the lookup has no deadline.
CheckInboundsLookup(t) ==
    /\ g[t].state = "running"
    /\ \E outcome \in Outcomes, declared \in SUBSET InboundNames :
        /\ outcome # "ok" => declared = {}
        /\ trace' = Append(trace, Call("GetAppInstance", t, outcome))
        /\ g' = [g EXCEPT ![t] =
                    IF Returns("GetAppInstance", outcome)
                    THEN [state |-> "responding", found |-> (outcome = "ok"),
                          declared |-> declared,
                          resp |-> InboundResponse(t, instanceList[t],
                                                   outcome = "ok", declared),
                          sends |-> checkInboundsSends(t, instanceList[t],
                                                       outcome = "ok", declared)]
                    ELSE [NoGoroutine EXCEPT !.state = "hung"]]
    /\ UNCHANGED <<req, stored, pc, desc, instanceList, respond, parametrizedDesc,
                   instance, connections, err, ret, instances, parametrized, queue>>
    /\ UNCHANGED <<undeploy, copy, parametrize, addDescriptor, calls>>

\* checkInbounds: a send on the channel, which blocks while the channel is
\* full, and after the last one the deferred wg.Done.
CheckInboundsRespond(t) ==
    /\ g[t].state = "responding"
    /\ Len(respond) < Cardinality(DOMAIN instanceList)
    /\ respond' = Append(respond, Head(g[t].sends))
    /\ g' = [g EXCEPT ![t].sends = Tail(@),
                      ![t].state = IF Len(g[t].sends) = 1 THEN "done" ELSE @]
    /\ UNCHANGED <<req, stored, pc, desc, instanceList, parametrizedDesc, instance,
                   connections, err, ret, trace, instances, parametrized, queue>>
    /\ UNCHANGED <<undeploy, copy, parametrize, addDescriptor, calls>>

\* Variant: the wait ends as soon as one goroutine is done.
WaitGroupDoneAny ==
    instanceList = <<>> \/ \E t \in DOMAIN instanceList : g[t].state = "done"

\* wg.Wait(): every goroutine has run its deferred wg.Done.
WaitGroupDone == \A t \in DOMAIN instanceList : g[t].state = "done"

\* checkConnections from wg.Wait on: close the channel, read the results.  The
\* map, the goroutines and the channel are gone once the check has passed;
\* a failed check is the end of Deploy and leaves them as they were.
CheckConnectionsWait ==
    /\ pc = "wait"
    /\ WaitGroupDone
    /\ LET e == DrainResponses(respond)
       IN  /\ trace' = Append(trace, Step("checkConnections", ~IsErr(e)))
           /\ IF IsErr(e)
              THEN /\ ReturnError(e)
                   /\ UNCHANGED <<instanceList, g, respond>>
              ELSE /\ pc' = "parametrize"
                   /\ instanceList' = <<>>
                   /\ g' = [t \in TargetIds |-> NoGoroutine]
                   /\ respond' = <<>>
                   /\ UNCHANGED ret
    /\ UNCHANGED <<req, stored, desc, parametrizedDesc, instance, connections, err,
                   instances, parametrized, queue>>
    /\ UNCHANGED <<undeploy, copy, parametrize, addDescriptor, calls>>

\* Create it parametrized descriptor
DeployParametrize ==
    /\ pc = "parametrize"
    /\ LET r == CreateParametrizedDescriptor(desc, req.Parameters)
       IN  /\ trace' = Append(trace, Step("CreateParametrizedDescriptor",
                                          ~IsErr(r.err)))
           /\ parametrizedDesc' = r.pd
           /\ IF IsErr(r.err) THEN ReturnError(r.err)
              ELSE pc' = "AddAppInstance" /\ UNCHANGED ret
    /\ UNCHANGED <<req, stored, desc, instanceList, g, respond, instance, connections,
                   err, instances, parametrized, queue>>
    /\ UNCHANGED <<undeploy, copy, parametrize, addDescriptor, calls>>

\* Add instance, by default this is created with bus status.  The store builds
\* the instance from the descriptor.
DeployAddAppInstance ==
    /\ pc = "AddAppInstance"
    /\ \E outcome \in Outcomes :
        /\ trace' = Append(trace, Call("AddAppInstance", "", outcome))
        /\ IF outcome = "ok"
           THEN /\ instance' = [AppInstanceId |-> NewInstanceId, Rules |-> desc.Rules]
                /\ instances' = instances \cup {NewInstanceId}
                /\ pc' = "resolve"
                /\ UNCHANGED ret
           ELSE /\ ReturnError(CallError("AddAppInstance", outcome))
                /\ UNCHANGED <<instance, instances>>
    /\ UNCHANGED <<req, stored, desc, instanceList, g, respond, parametrizedDesc,
                   connections, err, parametrized, queue>>
    /\ UNCHANGED <<undeploy, copy, parametrize, addDescriptor, calls>>

\* The connection slice of the command, and the instance id of the
\* parametrized descriptor.
DeployResolveConnections ==
    /\ pc = "resolve"
    /\ connections' = ResolveConnections(instance.Rules, req.OutboundConnections)
    /\ parametrizedDesc' = [parametrizedDesc EXCEPT
                                !.AppInstanceId = instance.AppInstanceId]
    /\ pc' = "AddParametrizedDescriptor"
    /\ UNCHANGED <<req, stored, desc, instanceList, g, respond, instance, err, ret, trace,
                   instances, parametrized, queue>>
    /\ UNCHANGED <<undeploy, copy, parametrize, addDescriptor, calls>>

\* Variant: the instance is updated whether or not there are rules.
NeedsUpdateAlways(pd) == TRUE

\* update the instance with the rules parametrized
NeedsUpdate(pd) == Len(pd.Rules) > 0

\* Variant: the persist error is returned without deleting the instance.
PersistFailureNoRollback(e) ==
    /\ err' = e
    /\ ReturnError(e)

\* Variant: the persist error is logged and the command is sent.
PersistFailureLogged(e) ==
    /\ err' = e
    /\ pc' = "Send"
    /\ UNCHANGED ret

\* error adding parametrized descriptor: Delete instance
PersistFailure(e) ==
    /\ err' = e
    /\ pc' = "rollbackPersist"
    /\ UNCHANGED ret

\* Add parametrizedDescriptor in the system
DeployAddParametrizedDescriptor ==
    /\ pc = "AddParametrizedDescriptor"
    /\ \E outcome \in Outcomes :
        /\ trace' = Append(trace, Call("AddParametrizedDescriptor",
                                       parametrizedDesc.AppInstanceId, outcome))
        /\ IF outcome = "ok"
           THEN /\ parametrized' = parametrized \cup {parametrizedDesc.AppInstanceId}
                /\ pc' = IF NeedsUpdate(parametrizedDesc)
                         THEN "UpdateAppInstance" ELSE "Send"
                /\ UNCHANGED <<err, ret>>
           ELSE /\ PersistFailure(CallError("AddParametrizedDescriptor", outcome))
                /\ UNCHANGED parametrized
    /\ UNCHANGED <<req, stored, desc, instanceList, g, respond, parametrizedDesc,
                   instance, connections, instances, queue>>
    /\ UNCHANGED <<undeploy, copy, parametrize, addDescriptor, calls>>

\* Variant: the update error is returned without deleting the instance.
UpdateFailureNoRollback(e) ==
    /\ err' = e
    /\ ReturnError(e)

\* error updating instance: Delete instance
UpdateFailure(e) ==
    /\ err' = e
    /\ pc' = "rollbackUpdate"
    /\ UNCHANGED ret

\* update the instance: it takes the rules of the descriptor the store returned
\* from AddParametrizedDescriptor, which are those of the descriptor it was given.
DeployUpdateAppInstance ==
    /\ pc = "UpdateAppInstance"
    /\ \E outcome \in Outcomes :
        /\ trace' = Append(trace, Call("UpdateAppInstance",
                                       instance.AppInstanceId, outcome))
        /\ IF outcome = "ok"
           THEN /\ instance' = [instance EXCEPT !.Rules = parametrizedDesc.Rules]
                /\ pc' = "Send"
                /\ UNCHANGED <<err, ret>>
           ELSE /\ UpdateFailure(CallError("UpdateAppInstance", outcome))
                /\ UNCHANGED instance
    /\ UNCHANGED <<req, stored, desc, instanceList, g, respond, parametrizedDesc,
                   connections, instances, parametrized, queue>>
    /\ UNCHANGED <<undeploy, copy, parametrize, addDescriptor, calls>>

\* The instance the compensating RemoveAppInstance names.
RollbackTarget == instance.AppInstanceId

\* Variant: a failed compensation replaces the error of the failed step.
RollbackReturnLast(stepErr, rollbackErr) ==
    IF IsErr(rollbackErr) THEN rollbackErr ELSE stepErr

\* The error Deploy returns after the compensation.
RollbackReturn(stepErr, rollbackErr) == stepErr

\* The compensating RemoveAppInstance, under context.Background(), and the
\* return of the error of the failed step.
Rollback ==
    \E outcome \in Outcomes :
        /\ trace' = Append(trace, Call("RemoveAppInstance", RollbackTarget, outcome))
        /\ instances' = IF outcome = "ok" THEN instances \ {RollbackTarget}
                        ELSE instances
        /\ IF Returns("RemoveAppInstance", outcome)
           THEN ReturnError(RollbackReturn(err,
                                           CallError("RemoveAppInstance", outcome)))
           ELSE pc' = "hung" /\ UNCHANGED ret
        /\ UNCHANGED <<req, stored, desc, instanceList, g, respond, parametrizedDesc,
                       instance, connections, err, parametrized, queue>>
        /\ UNCHANGED <<undeploy, copy, parametrize, addDescriptor, calls>>

DeployRollbackPersist == pc = "rollbackPersist" /\ Rollback

DeployRollbackUpdate == pc = "rollbackUpdate" /\ Rollback

\* grpc_conductor_go.DeploymentRequest
DeploymentRequest ==
    [AppInstanceId |-> instance.AppInstanceId, OutboundConnections |-> connections]

\* Variant: the response carries the id of the parametrized descriptor's
\* source and no status.
DeploymentResponseUnset ==
    [AppInstanceId |-> instance.AppInstanceId, Status |-> ""]

\* grpc_application_manager_go.DeploymentResponse
DeploymentResponse ==
    [AppInstanceId |-> instance.AppInstanceId, Status |-> QUEUED]

\* Variant: a failed send is compensated like a failed update.
SendFailureRollback(e) ==
    /\ err' = e
    /\ pc' = "rollbackUpdate"
    /\ UNCHANGED ret

\* error when sending deployment request to the queue
SendFailure(e) ==
    /\ ReturnError(e)
    /\ UNCHANGED err

\* send deploy command to conductor
DeploySend ==
    /\ pc = "Send"
    /\ \E outcome \in Outcomes :
        /\ trace' = Append(trace, Call("Send", instance.AppInstanceId, outcome))
        /\ IF outcome = "ok"
           THEN /\ queue' = Append(queue, DeploymentRequest)
                /\ pc' = "done"
                /\ ret' = [done |-> TRUE, err |-> NoErr, resp |-> DeploymentResponse]
                /\ UNCHANGED err
           ELSE /\ SendFailure(CallError("Send", outcome))
                /\ UNCHANGED queue
    /\ UNCHANGED <<req, stored, desc, instanceList, g, respond, parametrizedDesc,
                   instance, connections, instances, parametrized>>
    /\ UNCHANGED <<undeploy, copy, parametrize, addDescriptor, calls>>

Next ==
    \/ DeployGetAppDescriptor
    \/ DeployCheckParameters
    \/ CheckConnectionsLaunch
    \/ \E t \in TargetIds : CheckInboundsLookup(t)
    \/ \E t \in TargetIds : CheckInboundsRespond(t)
    \/ CheckConnectionsWait
    \/ DeployParametrize
    \/ DeployAddAppInstance
    \/ DeployResolveConnections
    \/ DeployAddParametrizedDescriptor
    \/ DeployUpdateAppInstance
    \/ DeployRollbackPersist
    \/ DeployRollbackUpdate
    \/ DeploySend

Spec == Init /\ [][Next]_vars

\* The goroutines and the caller of checkConnections are scheduled: a send
\* that can proceed does, and so does the caller once the barrier is open.
SpecFair ==
    /\ Spec
    /\ WF_vars(CheckConnectionsWait)
    /\ \A t \in TargetIds : WF_vars(CheckInboundsRespond(t))

\* ---------------------------------------------------------------- Undeploy

\* The instances connected to the instance to undeploy.
PeerNames == <<"p1", "p2", "p3">>

\* grpc_application_network_go.ConnectionInstance: the k-th connection into
\* the instance, and the k-th out of it.
InboundConnection(k) ==
    [SourceInstanceId |-> PeerNames[k], TargetInstanceId |-> NewInstanceId,
     InboundName |-> "in1", OutboundName |-> "o1"]
OutboundConnection(k) ==
    [SourceInstanceId |-> NewInstanceId, TargetInstanceId |-> PeerNames[k],
     InboundName |-> "in1", OutboundName |-> "o1"]

\* What the network store may hold for the instance.
NetworkStores ==
    [inbound : {[k \in 1..n |-> InboundConnection(k)] : n \in 0..MaxPeers},
     outbound : {[k \in 1..n |-> OutboundConnection(k)] : n \in 0..MaxPeers}]

\* grpc_application_manager_go.UndeployRequest
UndeployRequests == [AppInstanceId : {NewInstanceId}, UserConfirmation : BOOLEAN]

\* One Undeploy call, of an instance that is stored or not; no Deploy call
\* is under way.
InitUndeploy ==
    /\ undeploy \in [request : UndeployRequests, network : NetworkStores,
                     pc : {"GetAppInstance"}, expandInstance : {NoExpandInstance},
                     conn : {1}, ret : {UndeployNotReturned}]
    /\ instances \in SUBSET {NewInstanceId}
    /\ trace = <<>>
    /\ queue = <<>>
    /\ req = [Parameters |-> NilParameters, OutboundConnections |-> <<>>]
    /\ stored = EmptyDescriptor
    /\ pc = "done"
    /\ desc = EmptyDescriptor
    /\ instanceList = <<>>
    /\ g = [t \in TargetIds |-> NoGoroutine]
    /\ respond = <<>>
    /\ parametrizedDesc = NilParametrized
    /\ instance = NoInstance
    /\ connections = <<>>
    /\ err = NoErr
    /\ ret = NotReturned
    /\ parametrized = {}
    /\ CopyIdle
    /\ ParametrizeIdle
    /\ AddDescriptorIdle
    /\ CallsIdle

\* return nil, e (e is NoErr for return &grpc_common_go.Success{}, nil)
UndeployReturn(u, e) ==
    [u EXCEPT !.pc = "done", !.ret = [done |-> TRUE, err |-> e]]

\* A call under context.Background() that never answers.
UndeployHang(u) == [u EXCEPT !.pc = "hung"]

\* Manager.GetAppInstance: the instance of the store, without deadline.
UndeployGetAppInstance ==
    /\ upc = "GetAppInstance"
    /\ \E outcome \in Outcomes :
        /\ outcome = "ok" => undeployRequest.AppInstanceId \in instances
        /\ trace' = Append(trace, Call("GetAppInstance",
                                       undeployRequest.AppInstanceId, outcome))
        /\ undeploy' =
            IF outcome = "ok"
            THEN [undeploy EXCEPT
                    !.expandInstance = [NoExpandInstance EXCEPT
                        !.AppInstanceId = undeployRequest.AppInstanceId],
                    !.pc = "ListInboundConnections"]
            ELSE IF Returns("GetAppInstance", outcome)
            THEN UndeployReturn(undeploy, CallError("GetAppInstance", outcome))
            ELSE UndeployHang(undeploy)
    /\ UNCHANGED <<instances, queue, copy, parametrize, addDescriptor, calls>>
    /\ UNCHANGED deployVars

\* getInstanceConnections: a failed listing is logged and leaves the field empty.
GetInstanceInboundConnections ==
    /\ upc = "ListInboundConnections"
    /\ \E outcome \in Outcomes :
        /\ trace' = Append(trace, Call("ListInboundConnections",
                                       expandInstance.AppInstanceId, outcome))
        /\ undeploy' =
            LET listed == IF outcome = "ok"
                          THEN [undeploy EXCEPT
                                    !.expandInstance.InboundConnections =
                                        network.inbound]
                          ELSE undeploy
            IN  IF Returns("ListInboundConnections", outcome)
                THEN [listed EXCEPT !.pc = "ListOutboundConnections"]
                ELSE UndeployHang(listed)
    /\ UNCHANGED <<instances, queue, copy, parametrize, addDescriptor, calls>>
    /\ UNCHANGED deployVars

GetInstanceOutboundConnections ==
    /\ upc = "ListOutboundConnections"
    /\ \E outcome \in Outcomes :
        /\ trace' = Append(trace, Call("ListOutboundConnections",
                                       expandInstance.AppInstanceId, outcome))
        /\ undeploy' =
            LET listed == IF outcome = "ok"
                          THEN [undeploy EXCEPT
                                    !.expandInstance.OutboundConnections =
                                        network.outbound]
                          ELSE undeploy
            IN  IF Returns("ListOutboundConnections", outcome)
                THEN [listed EXCEPT !.pc = "guard"]
                ELSE UndeployHang(listed)
    /\ UNCHANGED <<instances, queue, copy, parametrize, addDescriptor, calls>>
    /\ UNCHANGED deployVars

\* Variant: the guard looks at the outbound connections.
NeedsConfirmationOutbound(inst, request) ==
    Len(inst.OutboundConnections) > 0 /\ ~request.UserConfirmation

\* len(instance.InboundConnections) > 0 && !undeployRequest.UserConfirmation
NeedsConfirmation(inst, request) ==
    Len(inst.InboundConnections) > 0 /\ ~request.UserConfirmation

\* Variant: the outbound connections are left alone.
AfterInboundSkip(inst) == "Send"

\* Where Undeploy goes after the guard, and after the loop over the inbound
\* connections: a range loop over an empty list has no iteration.
AfterInbound(inst) ==
    IF Len(inst.OutboundConnections) > 0 THEN "RemoveOutbound" ELSE "Send"
AfterGuard(inst) ==
    IF Len(inst.InboundConnections) > 0 THEN "RemoveInbound" ELSE AfterInbound(inst)

UndeployGuard ==
    /\ upc = "guard"
    /\ trace' = Append(trace, Step("guard",
                                   ~NeedsConfirmation(expandInstance, undeployRequest)))
    /\ undeploy' =
        IF NeedsConfirmation(expandInstance, undeployRequest)
        THEN UndeployReturn(undeploy,
                            Err("FailedPrecondition", InboundConnectionsLeft, <<>>))
        ELSE [undeploy EXCEPT !.pc = AfterGuard(expandInstance)]
    /\ UNCHANGED <<instances, queue, copy, parametrize, addDescriptor, calls>>
    /\ UNCHANGED deployVars

\* What the application-network manager answers to RemoveConnection.
RemoveOutcomes == {"ok", "err"}

\* Variant: a failed removal ends Undeploy with the removal error.
RemovalDoneAbort(u, rErr, n, next) ==
    IF IsErr(rErr) THEN UndeployReturn(u, rErr)
    ELSE IF u.conn < n THEN [u EXCEPT !.conn = u.conn + 1]
    ELSE [u EXCEPT !.conn = 1, !.pc = next]

\* The end of one iteration of a removal loop over n connections: the error
\* is logged, and the loop goes on or gives way to the statement next.
RemovalDone(u, rErr, n, next) ==
    IF u.conn < n THEN [u EXCEPT !.conn = u.conn + 1]
    ELSE [u EXCEPT !.conn = 1, !.pc = next]

\* Remove Inbound connections: one iteration.
UndeployRemoveInbound ==
    /\ upc = "RemoveInbound"
    /\ \E outcome \in RemoveOutcomes :
        /\ trace' = Append(trace, Call("RemoveConnection",
                                       expandInstance.InboundConnections[conn], outcome))
        /\ undeploy' = RemovalDone(undeploy, CallError("RemoveConnection", outcome),
                                   Len(expandInstance.InboundConnections),
                                   AfterInbound(expandInstance))
    /\ UNCHANGED <<instances, queue, copy, parametrize, addDescriptor, calls>>
    /\ UNCHANGED deployVars

\* The loop over the outbound connections: one iteration.
UndeployRemoveOutbound ==
    /\ upc = "RemoveOutbound"
    /\ \E outcome \in RemoveOutcomes :
        /\ trace' = Append(trace, Call("RemoveConnection",
                                       expandInstance.OutboundConnections[conn], outcome))
        /\ undeploy' = RemovalDone(undeploy, CallError("RemoveConnection", outcome),
                                   Len(expandInstance.OutboundConnections), "Send")
    /\ UNCHANGED <<instances, queue, copy, parametrize, addDescriptor, calls>>
    /\ UNCHANGED deployVars

\* grpc_conductor_go.UndeployRequest
UndeployCommand == [AppInstanceId |-> undeployRequest.AppInstanceId]

\* Variant: a failed send is logged and Undeploy returns success.
UndeploySendFailureLogged(u, e) == UndeployReturn(u, NoErr)

\* error when sending the undeploy request to the queue
UndeploySendFailure(u, e) == UndeployReturn(u, e)

UndeploySend ==
    /\ upc = "Send"
    /\ \E outcome \in Outcomes :
        /\ trace' = Append(trace, Call("Send", undeployRequest.AppInstanceId, outcome))
        /\ IF outcome = "ok"
           THEN /\ queue' = Append(queue, UndeployCommand)
                /\ undeploy' = UndeployReturn(undeploy, NoErr)
           ELSE /\ undeploy' = UndeploySendFailure(undeploy, CallError("Send", outcome))
                /\ UNCHANGED queue
    /\ UNCHANGED <<instances, copy, parametrize, addDescriptor, calls>>
    /\ UNCHANGED deployVars

NextUndeploy ==
    \/ UndeployGetAppInstance
    \/ GetInstanceInboundConnections
    \/ GetInstanceOutboundConnections
    \/ UndeployGuard
    \/ UndeployRemoveInbound
    \/ UndeployRemoveOutbound
    \/ UndeploySend

SpecUndeploy == InitUndeploy /\ [][NextUndeploy]_vars

\* ----------------------------------------- references of the parametrized copy

\* The collections and structs a descriptor may hold: its maps, its rule and
\* group slices, one rule with its auth services, one group with its labels
\* and services, one service with its maps, lists and storage.
Paths ==
    {"Labels", "EnvironmentVariables", "ConfigurationOptions",
     "Rules", "Rules.0", "Rules.0.AuthServices",
     "Groups", "Groups.0", "Groups.0.Labels", "Groups.0.Services",
     "Groups.0.Services.0", "Groups.0.Services.0.EnvironmentVariables",
     "Groups.0.Services.0.Labels", "Groups.0.Services.0.DeployAfter",
     "Groups.0.Services.0.Storage"}

\* Addresses: what the descriptor was built with, and what the copy allocates.
D(path) == <<"d", path>>
Fresh(a) == <<"p", a[2]>>
Addresses == {<<space, path>> : space \in {"d", "p"}, path \in Paths}

\* What an address holds: nothing, a map or a list of strings (its content
\* as one value), a slice of pointers, or a struct with its reference fields.
Free == [kind |-> "free", val |-> "", refs |-> <<>>]
Data(v) == [kind |-> "data", val |-> v, refs |-> <<>>]
Slice(ptrs) == [kind |-> "slice", val |-> "", refs |-> ptrs]
Struct(fields) == [kind |-> "struct", val |-> "", refs |-> fields]

\* The descriptors given to CreateParametrizedDescriptor.
Shapes ==
    {sh \in [labels : BOOLEAN, env : BOOLEAN, config : BOOLEAN, rule : BOOLEAN,
             group : BOOLEAN, service : BOOLEAN] : sh.service => sh.group}

\* The heap holding the descriptor of a shape, and the descriptor.
InitialHeap(sh) ==
    [a \in Addresses |->
        CASE a = D("Labels") /\ sh.labels -> Data("v")
          [] a = D("EnvironmentVariables") /\ sh.env -> Data("v")
          [] a = D("ConfigurationOptions") /\ sh.config -> Data("v")
          [] a = D("Rules") ->
                Slice(IF sh.rule THEN <<D("Rules.0")>> ELSE <<>>)
          [] a = D("Rules.0") /\ sh.rule ->
                Struct([AuthServices |-> D("Rules.0.AuthServices")])
          [] a = D("Rules.0.AuthServices") /\ sh.rule -> Data("v")
          [] a = D("Groups") ->
                Slice(IF sh.group THEN <<D("Groups.0")>> ELSE <<>>)
          [] a = D("Groups.0") /\ sh.group ->
                Struct([Services |-> D("Groups.0.Services"),
                        Labels |-> D("Groups.0.Labels")])
          [] a = D("Groups.0.Labels") /\ sh.group -> Data("v")
          [] a = D("Groups.0.Services") /\ sh.group ->
                Slice(IF sh.service THEN <<D("Groups.0.Services.0")>> ELSE <<>>)
          [] a = D("Groups.0.Services.0") /\ sh.service ->
                Struct([EnvironmentVariables |->
                            D("Groups.0.Services.0.EnvironmentVariables"),
                        Labels |-> D("Groups.0.Services.0.Labels"),
                        DeployAfter |-> D("Groups.0.Services.0.DeployAfter"),
                        Storage |-> D("Groups.0.Services.0.Storage")])
          [] a \in {D("Groups.0.Services.0.EnvironmentVariables"),
                    D("Groups.0.Services.0.Labels"),
                    D("Groups.0.Services.0.DeployAfter"),
                    D("Groups.0.Services.0.Storage")} /\ sh.service -> Data("v")
          [] OTHER -> Free]

InitialRoot(sh) ==
    [Labels |-> IF sh.labels THEN D("Labels") ELSE Nil,
     EnvironmentVariables |-> IF sh.env THEN D("EnvironmentVariables") ELSE Nil,
     ConfigurationOptions |-> IF sh.config THEN D("ConfigurationOptions") ELSE Nil,
     Rules |-> D("Rules"),
     Groups |-> D("Groups")]

\* The addresses a struct, slice or descriptor refers to.
Refs(cell) == {cell.refs[x] : x \in DOMAIN cell.refs} \ {Nil}
RootRefs(root) == {root[f] : f \in DOMAIN root} \ {Nil}

\* Everything reachable from a set of addresses.
RECURSIVE ReachFrom(_, _)
ReachFrom(h, S) ==
    LET T == S \cup UNION {Refs(h[a]) : a \in S}
    IN  IF T = S THEN S ELSE ReachFrom(h, T)

Reachable(h, root) == ReachFrom(h, RootRefs(root))

\* copySecurityRule: a new struct; AuthServices is assigned, not copied.
copySecurityRule(h, rule) ==
    Struct([AuthServices |-> h[rule].refs.AuthServices])

\* copyStorage, and the new storage slice of copyService.
copyStorage(h, storage) == Data(h[storage].val)

\* copyService: a new struct with a new storage slice; EnvironmentVariables,
\* Labels and DeployAfter are assigned, not copied.
copyService(h, service) ==
    Struct([EnvironmentVariables |-> h[service].refs.EnvironmentVariables,
            Labels |-> h[service].refs.Labels,
            DeployAfter |-> h[service].refs.DeployAfter,
            Storage |-> Fresh(h[service].refs.Storage)])

\* copyServiceGroup: a new struct with a new service slice; Labels is assigned.
copyServiceGroup(h, group) ==
    Struct([Services |-> Fresh(h[group].refs.Services),
            Labels |-> h[group].refs.Labels])

\* make + append: a new slice holding the copies of the elements.
copySlice(h, slice) ==
    Slice([i \in DOMAIN h[slice].refs |-> Fresh(h[slice].refs[i])])

\* The slices and structs of the descriptor the copy functions walk.
CopiedPaths ==
    {"Rules", "Rules.0", "Groups", "Groups.0", "Groups.0.Services",
     "Groups.0.Services.0", "Groups.0.Services.0.Storage"}

\* The copy a copy function makes of what is stored at address a.
CopyOf(h, a) ==
    CASE a[2] = "Rules.0" -> copySecurityRule(h, a)
      [] a[2] = "Groups.0" -> copyServiceGroup(h, a)
      [] a[2] = "Groups.0.Services.0" -> copyService(h, a)
      [] a[2] = "Groups.0.Services.0.Storage" -> copyStorage(h, a)
      [] OTHER -> copySlice(h, a)

\* newParametrizedDescriptorFromDescriptor: the heap after it, and the
\* ParametrizedDescriptor it returns.
newParametrizedHeap(h, descriptor) ==
    LET walked == {a \in Reachable(h, descriptor) : a[2] \in CopiedPaths}
    IN  [a \in Addresses |->
            IF a[1] = "p" /\ D(a[2]) \in walked THEN CopyOf(h, D(a[2]))
            ELSE h[a]]

newParametrizedRoot(descriptor) ==
    [Labels |-> descriptor.Labels,
     EnvironmentVariables |-> descriptor.EnvironmentVariables,
     ConfigurationOptions |-> descriptor.ConfigurationOptions,
     Rules |-> Fresh(descriptor.Rules),
     Groups |-> Fresh(descriptor.Groups)]

\* The maps and string lists of a descriptor.
Collections(h, root) == {a \in Reachable(h, root) : h[a].kind = "data"}

\* One call of CreateParametrizedDescriptor on a descriptor of some shape.
InitCopy ==
    /\ copy \in {[shape |-> sh, heap |-> InitialHeap(sh),
                  original |-> InitialRoot(sh), copied |-> NoRoot, pc |-> "new"] :
                    sh \in Shapes}
    /\ UndeployIdle
    /\ ParametrizeIdle
    /\ AddDescriptorIdle
    /\ CallsIdle
    /\ req = [Parameters |-> NilParameters, OutboundConnections |-> <<>>]
    /\ stored = EmptyDescriptor
    /\ pc = "done"
    /\ desc = EmptyDescriptor
    /\ instanceList = <<>>
    /\ g = [t \in TargetIds |-> NoGoroutine]
    /\ respond = <<>>
    /\ parametrizedDesc = NilParametrized
    /\ instance = NoInstance
    /\ connections = <<>>
    /\ err = NoErr
    /\ ret = NotReturned
    /\ trace = <<>>
    /\ instances = {}
    /\ parametrized = {}
    /\ queue = <<>>

\* parametrized := newParametrizedDescriptorFromDescriptor(descriptor)
CreateParametrizedNew ==
    /\ cpc = "new"
    /\ copy' = [copy EXCEPT !.heap = newParametrizedHeap(heap, original),
                            !.copied = newParametrizedRoot(original),
                            !.pc = "parameters"]
    /\ UNCHANGED <<deployVars, undeploy, trace, instances, queue, parametrize,
                   addDescriptor, calls>>

\* No parameters: the copy is returned as it is.
CreateParametrizedReturn ==
    /\ cpc = "parameters"
    /\ copy' = [copy EXCEPT !.pc = "returned"]
    /\ UNCHANGED <<deployVars, undeploy, trace, instances, queue, parametrize,
                   addDescriptor, calls>>

\* One parameter whose path leads into the collection at address target:
\* Marshal, sjson.Set and Unmarshal into parametrized.  Unmarshal decodes
\* into the maps and slices the struct already holds, so the new value is
\* written at the address the copy holds for that collection.
CreateParametrizedApply ==
    /\ cpc = "parameters"
    /\ \E target \in Collections(heap, copied) :
            copy' = [copy EXCEPT !.heap[target] = Data("w"), !.pc = "returned"]
    /\ UNCHANGED <<deployVars, undeploy, trace, instances, queue, parametrize,
                   addDescriptor, calls>>

\* The caller changes a collection of the descriptor it was returned.
WriteToCopy ==
    /\ cpc = "returned"
    /\ \E target \in Collections(heap, copied) :
            copy' = [copy EXCEPT !.heap[target] = Data("x"), !.pc = "written"]
    /\ UNCHANGED <<deployVars, undeploy, trace, instances, queue, parametrize,
                   addDescriptor, calls>>

NextCopy ==
    \/ CreateParametrizedNew
    \/ CreateParametrizedReturn
    \/ CreateParametrizedApply
    \/ WriteToCopy

SpecCopy == InitCopy /\ [][NextCopy]_vars

\* ---------------------------------------- parametrization of a descriptor

\* A definition of "p2" of type STRING at the given path.
ParamP3(path) == [Name |-> "p2", Type |-> "STRING", Required |-> FALSE,
                  Path |-> path, EnumValues |-> <<>>]

\* The descriptors to parametrize: "p1" undeclared or BOOLEAN at the flag of
\* the first group; "p2" undeclared, ENUM at the name, STRING at the flag, or
\* STRING with an empty path.
ParametrizeDescriptors ==
    [Name : {"app"}, MultiClusterReplica : BOOLEAN,
     Parameters :
        {a \o b : a \in {<<>>, <<ParamP1(FALSE)>>},
                  b \in {<<>>, <<ParamP2(FALSE)>>,
                         <<ParamP3("groups.0.specs.multi_cluster_replica")>>,
                         <<ParamP3("")>>}},
     OutboundNetInterfaces : {<<>>},
     Rules : RuleLists]

\* One call of CreateParametrizedDescriptor on a descriptor and a parameter list.
InitParametrize ==
    /\ parametrize \in [descriptor : ParametrizeDescriptors,
                        parameters : ParameterLists,
                        pc : {"call"},
                        ret : {[err |-> NoErr, pd |-> NilParametrized]}]
    /\ UndeployIdle
    /\ CopyIdle
    /\ AddDescriptorIdle
    /\ CallsIdle
    /\ req = [Parameters |-> NilParameters, OutboundConnections |-> <<>>]
    /\ stored = EmptyDescriptor
    /\ pc = "done"
    /\ desc = EmptyDescriptor
    /\ instanceList = <<>>
    /\ g = [t \in TargetIds |-> NoGoroutine]
    /\ respond = <<>>
    /\ parametrizedDesc = NilParametrized
    /\ instance = NoInstance
    /\ connections = <<>>
    /\ err = NoErr
    /\ ret = NotReturned
    /\ trace = <<>>
    /\ instances = {}
    /\ parametrized = {}
    /\ queue = <<>>

ParametrizeCall ==
    /\ parametrize.pc = "call"
    /\ parametrize' =
        [parametrize EXCEPT
            !.pc = "returned",
            !.ret = CreateParametrizedDescriptor(parametrize.descriptor,
                                                 parametrize.parameters)]
    /\ UNCHANGED <<deployVars, undeploy, copy, addDescriptor, calls, trace, instances,
                   queue>>

SpecParametrize == InitParametrize /\ [][ParametrizeCall]_vars

\* ---------------------------------------------------- descriptor validation

\* The AddAppDescriptorRequests to validate, after the fixtures of the
\* validation tests: the groups with their services, the rules, and the
\* environment variables, a map from keys to values, both split into their
\* tokens ("NALEJ_SERV_SERVICE1:2000" is NALEJ_SERV_, SERVICE1, :, 2000).
\* They carry no deployment specs.  They vary the names of groups and
\* services, or the deploy_after list of a service of the two groups of the
\* fixtures, or the rules, or the environment variables, of a descriptor with
\* these two groups or with none.
AddDescriptorRequests ==
    LET Service(n, after) == [Name |-> n, DeployAfter |-> after]
        Named == [Name : {"g1", "g2"},
                  Services : SeqsUpTo({Service(n, <<>>) :
                                        n \in {"service1", "service2"}},
                                      MaxServices)]
        Fixture(after) ==
            <<[Name |-> "g1", Services |-> <<Service("service1", after),
                                             Service("service2", <<>>)>>],
              [Name |-> "g2", Services |-> <<Service("service3", <<>>)>>]>>
        Rules == [TargetServiceGroupName : {"g1", "g7"},
                  TargetServiceName : {"service1", "service3"},
                  Access : {"APP_SERVICES", "DEVICE_GROUP"},
                  AuthServiceGroupName : {"", "g2"},
                  AuthServices : {<<>>, <<"service3">>},
                  DeviceGroupNames : {<<>>, <<"deviceGroup1">>}]
        Keys == {<<"var1">>, <<"var2">>, <<"sonar.jdbc.username", "=", "sonar">>}
        Values == {<<"sonar">>, <<"NALEJ_SERV_", "SERVICE1", ":", "2000">>,
                   <<"NALEJ_SERV_", "SERVICE2">>,
                   <<"NALEJ_SERV_", "SERVICE10", ":", "2000">>}
    IN  [Groups : SeqsUpTo(Named, MaxGroups), Rules : {<<>>},
         EnvironmentVariables : {<<>>}]
        \cup
        [Groups : {Fixture(after) :
                    after \in SeqsUpTo({"service2", "service3", "service5"},
                                       MaxDeployAfter)},
         Rules : {<<>>}, EnvironmentVariables : {<<>>}]
        \cup
        [Groups : {<<>>, Fixture(<<>>)},
         Rules : SeqsUpTo(Rules, MaxRules),
         EnvironmentVariables :
            {<<>>, <<"var1">> :> <<"NALEJ_SERV_", "SERVICE1", ":", "2000">>}]
        \cup
        [Groups : {<<>>, Fixture(<<>>)},
         Rules : {<<>>},
         EnvironmentVariables :
            UNION {[K -> Values] : K \in {S \in SUBSET Keys : Cardinality(S) <= MaxVars}}]

\* Variant: a descriptor without groups has nothing to check.
HasGroupsVacuous(d) == TRUE

\* Check 1: at least one service group.
HasGroups(d) == Len(d.Groups) > 0

\* Variant: only the names of the groups are compared.
UniqueNamesOfGroups(d) ==
    \A i, j \in 1..Len(d.Groups) : d.Groups[i].Name = d.Groups[j].Name => i = j

\* Check 2: no two groups share a name, no two services of a group share one.
UniqueNames(d) ==
    /\ \A i, j \in 1..Len(d.Groups) : d.Groups[i].Name = d.Groups[j].Name => i = j
    /\ \A k \in 1..Len(d.Groups) :
        \A i, j \in 1..Len(d.Groups[k].Services) :
            d.Groups[k].Services[i].Name = d.Groups[k].Services[j].Name => i = j

\* The pairs of a group name and the name of a service of that group.
ServicePairs(d) ==
    UNION {{<<d.Groups[k].Name, d.Groups[k].Services[i].Name>> :
                i \in 1..Len(d.Groups[k].Services)} : k \in 1..Len(d.Groups)}

\* Variant: a deploy_after name is looked up in the group of the service.
DeployAfterResolvesInGroup(d) ==
    \A k \in 1..Len(d.Groups) :
        \A i \in 1..Len(d.Groups[k].Services) :
            \A a \in 1..Len(d.Groups[k].Services[i].DeployAfter) :
                <<d.Groups[k].Name, d.Groups[k].Services[i].DeployAfter[a]>>
                    \in ServicePairs(d)

\* Check 3: every deploy_after name is a service of some group.
DeployAfterResolves(d) ==
    \A k \in 1..Len(d.Groups) :
        \A i \in 1..Len(d.Groups[k].Services) :
            \A a \in 1..Len(d.Groups[k].Services[i].DeployAfter) :
                \E pair \in ServicePairs(d) :
                    pair[2] = d.Groups[k].Services[i].DeployAfter[a]

\* Variant: the target service may be a service of any group.
RuleTargetsResolveAnywhere(d) ==
    \A r \in 1..Len(d.Rules) :
        /\ \E pair \in ServicePairs(d) : pair[1] = d.Rules[r].TargetServiceGroupName
        /\ \E pair \in ServicePairs(d) : pair[2] = d.Rules[r].TargetServiceName

\* Check 5: the target of every rule is a group and a service of that group.
RuleTargetsResolve(d) ==
    \A r \in 1..Len(d.Rules) :
        <<d.Rules[r].TargetServiceGroupName, d.Rules[r].TargetServiceName>>
            \in ServicePairs(d)

\* Variant: a device-group rule may name the services authorized.
DeviceRulesAnyFields(d) == TRUE

\* Check 7: a rule with device-group access carries no auth fields.
DeviceRulesWithoutAuth(d) ==
    \A r \in 1..Len(d.Rules) :
        d.Rules[r].Access = "DEVICE_GROUP" =>
            d.Rules[r].AuthServiceGroupName = "" /\ d.Rules[r].AuthServices = <<>>

\* Variant: the name in a binding is compared with the service names as
\* written.
BindingsResolveVerbatim(d) ==
    \A key \in DOMAIN d.EnvironmentVariables :
        LET value == d.EnvironmentVariables[key]
        IN  (Len(value) >= 2 /\ value[1] = "NALEJ_SERV_") =>
                \E pair \in ServicePairs(d) : pair[2] = value[2]

\* Check 8: a value that holds a service binding, the token NALEJ_SERV_
\* followed by the name of a service in capitals and an optional port, names
\* a service of the descriptor.
BindingsResolve(d) ==
    LET ToUpper == [service1 |-> "SERVICE1", service2 |-> "SERVICE2",
                    service3 |-> "SERVICE3"]
    IN  \A key \in DOMAIN d.EnvironmentVariables :
            LET value == d.EnvironmentVariables[key]
            IN  (Len(value) >= 2 /\ value[1] = "NALEJ_SERV_") =>
                    \E pair \in ServicePairs(d) : ToUpper[pair[2]] = value[2]

\* ValidDescriptorLogic: the first failing check is the error.  Check 6 is
\* that the auth group and services of a rule with application-services
\* access resolve; check 9 that no key of a variable holds an assignment.
ValidDescriptorLogic(d) ==
    LET AuthResolves ==
            \A r \in 1..Len(d.Rules) :
                d.Rules[r].Access = "APP_SERVICES" =>
                    \A a \in 1..Len(d.Rules[r].AuthServices) :
                        <<d.Rules[r].AuthServiceGroupName, d.Rules[r].AuthServices[a]>>
                            \in ServicePairs(d)
        KeysValid ==
            \A key \in DOMAIN d.EnvironmentVariables :
                \A i \in 1..Len(key) : key[i] # "="
        Invalid(reason) == Err("InvalidArgument", reason, <<>>)
    IN  IF ~HasGroups(d) THEN Invalid("no service groups")
        ELSE IF ~UniqueNames(d) THEN Invalid("repeated name")
        ELSE IF ~DeployAfterResolves(d) THEN Invalid("wrong deploy after")
        ELSE IF ~RuleTargetsResolve(d) THEN Invalid("wrong rule target")
        ELSE IF ~AuthResolves THEN Invalid("wrong auth service")
        ELSE IF ~DeviceRulesWithoutAuth(d) THEN Invalid("wrong device group rule")
        ELSE IF ~BindingsResolve(d) THEN Invalid("wrong environment variable")
        ELSE IF ~KeysValid THEN Invalid("wrong environment variable name")
        ELSE NoErr

\* The validation AddAppDescriptor runs before it adds the descriptor.
ValidateDescriptorParameters(toAdd) == ValidDescriptorLogic(toAdd)

\* One AddAppDescriptor call on an empty descriptor store.
InitAddDescriptor ==
    /\ addDescriptor \in [request : AddDescriptorRequests,
                          pc : {"call"},
                          descriptors : {<<>>},
                          ret : {UndeployNotReturned}]
    /\ UndeployIdle
    /\ CopyIdle
    /\ ParametrizeIdle
    /\ CallsIdle
    /\ req = [Parameters |-> NilParameters, OutboundConnections |-> <<>>]
    /\ stored = EmptyDescriptor
    /\ pc = "done"
    /\ desc = EmptyDescriptor
    /\ instanceList = <<>>
    /\ g = [t \in TargetIds |-> NoGoroutine]
    /\ respond = <<>>
    /\ parametrizedDesc = NilParametrized
    /\ instance = NoInstance
    /\ connections = <<>>
    /\ err = NoErr
    /\ ret = NotReturned
    /\ trace = <<>>
    /\ instances = {}
    /\ parametrized = {}
    /\ queue = <<>>

\* Variant: the descriptor is added whatever the validation says.
AddAppDescriptorUnchecked(e) == FALSE

\* if err != nil { return nil, conversions.ToGRPCError(err) }
AddAppDescriptorRejects(e) == IsErr(e)

\* Manager.AddAppDescriptor: the validation, then the add of the store, whose
\* context has no deadline.
AddAppDescriptor ==
    /\ addDescriptor.pc = "call"
    /\ LET e == ValidateDescriptorParameters(addDescriptor.request)
           validated == Step("ValidateDescriptorParameters", ~IsErr(e))
       IN  IF AddAppDescriptorRejects(e)
           THEN /\ trace' = Append(trace, validated)
                /\ addDescriptor' =
                    [addDescriptor EXCEPT !.pc = "done",
                                          !.ret = [done |-> TRUE, err |-> e]]
           ELSE \E outcome \in Outcomes :
                /\ trace' = trace \o
                        <<validated,
                          Call("AddAppDescriptor", addDescriptor.request, outcome)>>
                /\ addDescriptor' =
                    IF ~Returns("AddAppDescriptor", outcome)
                    THEN [addDescriptor EXCEPT !.pc = "hung"]
                    ELSE [addDescriptor EXCEPT
                            !.pc = "done",
                            !.descriptors =
                                IF outcome = "ok"
                                THEN Append(@, addDescriptor.request) ELSE @,
                            !.ret = [done |-> TRUE,
                                     err |-> CallError("AddAppDescriptor", outcome)]]
    /\ UNCHANGED <<deployVars, undeploy, copy, parametrize, calls, instances, queue>>

SpecAddDescriptor == InitAddDescriptor /\ [][AddAppDescriptor]_vars

\* ------------------------------------------------------- concurrent calls

\* Deploy calls of the descriptor "d1", without parameters and connections,
\* and one RemoveAppDescriptor call of "d1", on one application store that
\* holds the descriptor and may hold an instance of it and an instance of
\* another descriptor.  The store numbers the instances it adds; createdBy
\* notes, for each, the call that asked for it.
InitCalls ==
    /\ calls \in
        [pc : {"run"},
         descriptor : {d \in ParameterDescriptors : d.Parameters = <<>>},
         present : {TRUE},
         instances : SUBSET {[AppInstanceId |-> <<"old", 1>>, AppDescriptorId |-> "d1"],
                             [AppInstanceId |-> <<"old", 2>>, AppDescriptorId |-> "d2"]},
         added : {0},
         createdBy : {<<>>},
         parametrized : {{}},
         queue : {<<>>},
         deploy : {[p \in 1..MaxCalls |->
                        [pc |-> "GetAppDescriptor", parametrizedDesc |-> NilParametrized,
                         instance |-> <<"", 0>>, err |-> NoErr,
                         ret |-> UndeployNotReturned]]},
         remove : {[pc |-> "ListAppInstances", listed |-> {}, log |-> <<>>,
                    ret |-> UndeployNotReturned]}]
    /\ UndeployIdle
    /\ CopyIdle
    /\ ParametrizeIdle
    /\ AddDescriptorIdle
    /\ req = [Parameters |-> NilParameters, OutboundConnections |-> <<>>]
    /\ stored = EmptyDescriptor
    /\ pc = "done"
    /\ desc = EmptyDescriptor
    /\ instanceList = <<>>
    /\ g = [t \in TargetIds |-> NoGoroutine]
    /\ respond = <<>>
    /\ parametrizedDesc = NilParametrized
    /\ instance = NoInstance
    /\ connections = <<>>
    /\ err = NoErr
    /\ ret = NotReturned
    /\ trace = <<>>
    /\ instances = {}
    /\ parametrized = {}
    /\ queue = <<>>

\* Deploy from the fetch of the descriptor to the parametrization: the three
\* checks and the parametrization read and write nothing shared.  The store
\* answers with the descriptor only if it holds it.
ParDeployGetAppDescriptor(p) ==
    /\ calls.pc = "run"
    /\ calls.deploy[p].pc = "GetAppDescriptor"
    /\ \E outcome \in Outcomes :
        /\ outcome = "ok" => calls.present
        /\ LET d == calls.descriptor
               e1 == checkAllRequiredParametersAreFilled(d, NilParameters)
               e2 == checkRequiredOutbounds(<<>>, d.OutboundNetInterfaces)
               r == CreateParametrizedDescriptor(d, NilParameters)
               e == IF outcome # "ok" THEN CallError("GetAppDescriptor", outcome)
                    ELSE IF IsErr(e1) THEN e1
                    ELSE IF IsErr(e2) THEN e2
                    ELSE r.err
           IN  calls' =
                [calls EXCEPT !.deploy[p] =
                    IF IsErr(e)
                    THEN [@ EXCEPT !.pc = "done", !.ret = [done |-> TRUE, err |-> e]]
                    ELSE [@ EXCEPT !.pc = "AddAppInstance",
                                   !.parametrizedDesc = r.pd]]
    /\ UNCHANGED <<deployVars, undeploy, copy, parametrize, addDescriptor, trace,
                   instances, queue>>

\* Add instance and fill the instance_id in the parametrized descriptor: the
\* store adds an instance of a descriptor it holds, under the next number.
ParDeployAddAppInstance(p) ==
    /\ calls.pc = "run"
    /\ calls.deploy[p].pc = "AddAppInstance"
    /\ \E outcome \in Outcomes :
        /\ outcome = "ok" => calls.present
        /\ calls' =
            IF outcome = "ok"
            THEN LET id == <<"inst", calls.added + 1>>
                 IN  [calls EXCEPT
                        !.instances = @ \cup {[AppInstanceId |-> id,
                                               AppDescriptorId |-> "d1"]},
                        !.added = @ + 1,
                        !.createdBy = Append(@, p),
                        !.deploy[p].instance = id,
                        !.deploy[p].parametrizedDesc.AppInstanceId = id,
                        !.deploy[p].pc = "AddParametrizedDescriptor"]
            ELSE [calls EXCEPT
                    !.deploy[p].pc = "done",
                    !.deploy[p].ret = [done |-> TRUE,
                                       err |-> CallError("AddAppInstance", outcome)]]
    /\ UNCHANGED <<deployVars, undeploy, copy, parametrize, addDescriptor, trace,
                   instances, queue>>

\* Variant: the id is that of the instance the store added last.
appInstanceIDShared(c, p) == <<"inst", c.added>>

\* appInstanceID: the id of the instance AddAppInstance returned to this call.
appInstanceID(c, p) == c.deploy[p].instance

\* Add parametrizedDescriptor in the system
ParDeployAddParametrizedDescriptor(p) ==
    /\ calls.pc = "run"
    /\ calls.deploy[p].pc = "AddParametrizedDescriptor"
    /\ \E outcome \in Outcomes :
        calls' =
            IF outcome = "ok"
            THEN [calls EXCEPT
                    !.parametrized =
                        @ \cup {calls.deploy[p].parametrizedDesc.AppInstanceId},
                    !.deploy[p].pc =
                        IF NeedsUpdate(calls.deploy[p].parametrizedDesc)
                        THEN "UpdateAppInstance" ELSE "Send"]
            ELSE [calls EXCEPT
                    !.deploy[p].err = CallError("AddParametrizedDescriptor", outcome),
                    !.deploy[p].pc = "rollback"]
    /\ UNCHANGED <<deployVars, undeploy, copy, parametrize, addDescriptor, trace,
                   instances, queue>>

\* update the instance with the rules parametrized
ParDeployUpdateAppInstance(p) ==
    /\ calls.pc = "run"
    /\ calls.deploy[p].pc = "UpdateAppInstance"
    /\ \E outcome \in Outcomes :
        calls' =
            IF outcome = "ok"
            THEN [calls EXCEPT !.deploy[p].pc = "Send"]
            ELSE [calls EXCEPT
                    !.deploy[p].err = CallError("UpdateAppInstance", outcome),
                    !.deploy[p].pc = "rollback"]
    /\ UNCHANGED <<deployVars, undeploy, copy, parametrize, addDescriptor, trace,
                   instances, queue>>

\* The compensating RemoveAppInstance of appInstanceID, without deadline.
ParDeployRollback(p) ==
    /\ calls.pc = "run"
    /\ calls.deploy[p].pc = "rollback"
    /\ \E outcome \in Outcomes :
        calls' =
            [calls EXCEPT
                !.instances =
                    IF outcome = "ok"
                    THEN {i \in @ : i.AppInstanceId # appInstanceID(calls, p)}
                    ELSE @,
                !.deploy[p] =
                    IF Returns("RemoveAppInstance", outcome)
                    THEN [@ EXCEPT
                            !.pc = "done",
                            !.ret = [done |-> TRUE,
                                     err |-> RollbackReturn(calls.deploy[p].err,
                                                CallError("RemoveAppInstance", outcome))]]
                    ELSE [@ EXCEPT !.pc = "hung"]]
    /\ UNCHANGED <<deployVars, undeploy, copy, parametrize, addDescriptor, trace,
                   instances, queue>>

\* send deploy command to conductor: the command names appInstanceID.
ParDeploySend(p) ==
    /\ calls.pc = "run"
    /\ calls.deploy[p].pc = "Send"
    /\ \E outcome \in Outcomes :
        calls' =
            [calls EXCEPT
                !.queue = IF outcome = "ok"
                          THEN Append(@, [AppInstanceId |-> appInstanceID(calls, p)])
                          ELSE @,
                !.deploy[p].pc = "done",
                !.deploy[p].ret = [done |-> TRUE, err |-> CallError("Send", outcome)]]
    /\ UNCHANGED <<deployVars, undeploy, copy, parametrize, addDescriptor, trace,
                   instances, queue>>

\* Variant: the descriptor is kept only if every listed instance is one of it.
ReferencesDescriptorAll(listed, appDescriptorID) ==
    listed # {} /\ \A inst \in listed : inst.AppDescriptorId = appDescriptorID

\* for _, inst := range instances.Instances: some listed instance is an
\* instance of the descriptor.
ReferencesDescriptor(listed, appDescriptorID) ==
    \E inst \in listed : inst.AppDescriptorId = appDescriptorID

\* RemoveAppDescriptor up to the loop: the listing, without deadline, and the
\* search of the list for an instance of the descriptor.
RemoveListAppInstances ==
    /\ calls.pc = "run"
    /\ calls.remove.pc = "ListAppInstances"
    /\ \E outcome \in Outcomes :
        LET logged == [calls.remove EXCEPT
                        !.log = Append(@, Call("ListAppInstances", "d1", outcome))]
        IN  calls' =
                [calls EXCEPT !.remove =
                    IF ~Returns("ListAppInstances", outcome)
                    THEN [logged EXCEPT !.pc = "hung"]
                    ELSE IF outcome # "ok"
                    THEN [logged EXCEPT
                            !.pc = "done",
                            !.ret = [done |-> TRUE,
                                     err |-> CallError("ListAppInstances", outcome)]]
                    ELSE IF ReferencesDescriptor(calls.instances, "d1")
                    THEN [logged EXCEPT
                            !.listed = calls.instances,
                            !.pc = "done",
                            !.ret = [done |-> TRUE,
                                     err |-> Err("FailedPrecondition",
                                                 "application instances must be removed before deleting the descriptor",
                                                 <<>>)]]
                    ELSE [logged EXCEPT !.listed = calls.instances,
                                        !.pc = "RemoveAppDescriptor"]]
    /\ UNCHANGED <<deployVars, undeploy, copy, parametrize, addDescriptor, trace,
                   instances, queue>>

\* return m.appClient.RemoveAppDescriptor(context.Background(), appDescriptorID)
RemoveAppDescriptor ==
    /\ calls.pc = "run"
    /\ calls.remove.pc = "RemoveAppDescriptor"
    /\ \E outcome \in Outcomes :
        calls' =
            [calls EXCEPT
                !.present = IF outcome = "ok" THEN FALSE ELSE @,
                !.remove =
                    LET logged == [@ EXCEPT
                            !.log = Append(@, Call("RemoveAppDescriptor", "d1", outcome))]
                    IN  IF Returns("RemoveAppDescriptor", outcome)
                        THEN [logged EXCEPT
                                !.pc = "done",
                                !.ret = [done |-> TRUE,
                                         err |-> CallError("RemoveAppDescriptor",
                                                           outcome)]]
                        ELSE [logged EXCEPT !.pc = "hung"]]
    /\ UNCHANGED <<deployVars, undeploy, copy, parametrize, addDescriptor, trace,
                   instances, queue>>

NextCalls ==
    \/ \E p \in 1..MaxCalls : ParDeployGetAppDescriptor(p)
    \/ \E p \in 1..MaxCalls : ParDeployAddAppInstance(p)
    \/ \E p \in 1..MaxCalls : ParDeployAddParametrizedDescriptor(p)
    \/ \E p \in 1..MaxCalls : ParDeployUpdateAppInstance(p)
    \/ \E p \in 1..MaxCalls : ParDeployRollback(p)
    \/ \E p \in 1..MaxCalls : ParDeploySend(p)
    \/ RemoveListAppInstances
    \/ RemoveAppDescriptor

SpecCalls == InitCalls /\ [][NextCalls]_vars

\* ------------------------------------------------------------------ claims

\* Positions of the trace holding a call or step.
At(op) == {i \in 1..Len(trace) : trace[i].op = op}
Failed(op) == {i \in At(op) : ~trace[i].ok}
Succeeded(op) == {i \in At(op) : trace[i].ok}
Returned == ret.done
ReturnedOk == ret.done /\ ~IsErr(ret.err)

\* A compensating RemoveAppInstance for the created instance, after position i.
CompensatedAfter(i) ==
    \E j \in At("RemoveAppInstance") :
        j > i /\ trace[j].arg = NewInstanceId /\ instance.AppInstanceId = NewInstanceId

\* C1: whenever Deploy has returned and AddParametrizedDescriptor failed after a
\* successful AddAppInstance, a RemoveAppInstance for the created instance id
\* was issued after the failure, the error returned is the error of
\* AddParametrizedDescriptor, and nothing was sent to the queue.
C1_RollbackOnPersistFailure ==
    (Returned /\ Failed("AddParametrizedDescriptor") # {}) =>
        /\ Succeeded("AddAppInstance") # {}
        /\ \A i \in Failed("AddParametrizedDescriptor") : CompensatedAfter(i)
        /\ IsErr(ret.err) /\ ret.err.msg = "AddParametrizedDescriptor"
        /\ At("Send") = {} /\ queue = <<>>

C1_Witness ==
    /\ Returned
    /\ Failed("AddParametrizedDescriptor") # {}
    /\ Succeeded("RemoveAppInstance") # {}
    /\ instances = {}

\* C2: whenever Deploy has returned and UpdateAppInstance failed, the
\* parametrized descriptor has a rule, a RemoveAppInstance for the created
\* instance was issued after the failure, the error returned is the update
\* error, and the parametrized descriptor persisted before is still stored.
C2_RollbackOnUpdateFailure ==
    (Returned /\ Failed("UpdateAppInstance") # {}) =>
        /\ Len(parametrizedDesc.Rules) > 0
        /\ \A i \in Failed("UpdateAppInstance") : CompensatedAfter(i)
        /\ IsErr(ret.err) /\ ret.err.msg = "UpdateAppInstance"
        /\ NewInstanceId \in parametrized
        /\ At("Send") = {} /\ queue = <<>>

C2_Witness ==
    /\ Returned
    /\ Failed("UpdateAppInstance") # {}
    /\ Succeeded("RemoveAppInstance") # {}
    /\ instances = {}
    /\ parametrized = {NewInstanceId}

\* The place of each call or step in the order of Deploy.
Phase(op) ==
    CASE op = "GetAppDescriptor" -> 1
      [] op = "checkAllRequiredParametersAreFilled" -> 2
      [] op = "checkRequiredOutbounds" -> 3
      [] op = "GetAppInstance" -> 4
      [] op = "checkConnections" -> 5
      [] op = "CreateParametrizedDescriptor" -> 6
      [] op = "AddAppInstance" -> 7
      [] op = "AddParametrizedDescriptor" -> 8
      [] op = "UpdateAppInstance" -> 9
      [] op = "Send" -> 10
      [] OTHER -> 11

\* What may directly follow a in the trace when b does.
FollowsInOrder(a, b) ==
    CASE b.op = "RemoveAppInstance" ->
            ~a.ok /\ a.op \in {"AddParametrizedDescriptor", "UpdateAppInstance"}
      [] a.op = "GetAppInstance" ->
            b.op \in {"GetAppInstance", "checkConnections"}
      [] a.op = "checkRequiredOutbounds" ->
            a.ok /\ b.op \in {"GetAppInstance", "checkConnections"}
      [] a.op = "AddParametrizedDescriptor" ->
            a.ok /\ b.op = (IF Len(parametrizedDesc.Rules) > 0
                            THEN "UpdateAppInstance" ELSE "Send")
      [] OTHER -> a.ok /\ Phase(b.op) = Phase(a.op) + 1

\* C3: the trace of one Deploy call is a prefix of GetAppDescriptor, required-
\* parameter check, connection check with its lookups, parametrization,
\* AddAppInstance, AddParametrizedDescriptor, UpdateAppInstance (only with at
\* least one parametrized rule), Send; a step follows only a successful step,
\* the connection check passes only if every lookup succeeded, and the only
\* thing after a failed step is one compensating RemoveAppInstance.
C3_StrictOrder ==
    /\ trace # <<>> => trace[1].op = "GetAppDescriptor"
    /\ \A i \in 1..(Len(trace) - 1) : FollowsInOrder(trace[i], trace[i + 1])
    /\ Succeeded("checkConnections") # {} => Failed("GetAppInstance") = {}
    /\ Cardinality(At("RemoveAppInstance")) <= 1
    /\ At("UpdateAppInstance") # {} => Len(parametrizedDesc.Rules) > 0

C3_Witness ==
    /\ ReturnedOk
    /\ At("GetAppInstance") # {}
    /\ At("UpdateAppInstance") # {}
    /\ Len(trace) = 10

\* C4: whenever Deploy has returned and the send to the queue failed, the error
\* returned is the send error, no RemoveAppInstance was issued, and the
\* created instance and its parametrized descriptor are still stored.
C4_SendFailureNotCompensated ==
    (Returned /\ Failed("Send") # {}) =>
        /\ IsErr(ret.err) /\ ret.err.msg = "Send"
        /\ At("RemoveAppInstance") = {}
        /\ NewInstanceId \in instances
        /\ NewInstanceId \in parametrized
        /\ queue = <<>>

C4_Witness ==
    /\ Returned
    /\ Failed("Send") # {}
    /\ instances = {NewInstanceId}
    /\ parametrized = {NewInstanceId}

\* C5: Deploy has returned without error exactly when every step and call up
\* to and including the send succeeded; the response then carries the id of
\* the instance created by this call and status QUEUED, and is empty otherwise.
C5_SuccessResponse ==
    Returned =>
        /\ ReturnedOk <=> (Succeeded("Send") # {}
                           /\ \A i \in 1..Len(trace) : trace[i].ok)
        /\ ReturnedOk =>
                /\ Succeeded("AddAppInstance") # {}
                /\ ret.resp = [AppInstanceId |-> NewInstanceId, Status |-> QUEUED]
                /\ NewInstanceId \in instances
                /\ Len(queue) = 1 /\ queue[1].AppInstanceId = NewInstanceId
        /\ ~ReturnedOk => ret.resp = NoResponse

C5_Witness ==
    /\ ReturnedOk
    /\ ret.resp.Status = QUEUED
    /\ Len(queue) = 1

\* The names of the descriptor's required parameters the request does not give.
MissingRequired ==
    {desc.Parameters[i].Name : i \in {j \in 1..Len(desc.Parameters) :
                                        desc.Parameters[j].Required}}
        \ DeployParamNames(req.Parameters)

\* C6: the required-parameter check fails exactly when a required parameter of
\* the descriptor has no instance parameter of the same name (a nil list has
\* none), and Deploy then returns a failed-precondition error whose parameters
\* name a missing parameter.
C6_MissingParameterNamed ==
    (Returned /\ At("checkAllRequiredParametersAreFilled") # {}) =>
        /\ Failed("checkAllRequiredParametersAreFilled") # {} <=> MissingRequired # {}
        /\ Failed("checkAllRequiredParametersAreFilled") # {} =>
                /\ ret.err.code = "FailedPrecondition"
                /\ \E i \in 1..Len(ret.err.params) : ret.err.params[i] \in MissingRequired

\* The connection requests of the deploy request whose outbound name is the
\* outbound interface of some rule of the created instance that names a service.
RECURSIVE ResolvedConnections(_, _, _)
ResolvedConnections(rules, conns, i) ==
    IF i > Len(conns) THEN <<>>
    ELSE (IF \E k \in 1..Len(rules) :
                /\ rules[k].OutboundNetInterface = conns[i].SourceOutboundName
                /\ rules[k].TargetServiceName # ""
          THEN <<conns[i]>> ELSE <<>>)
         \o ResolvedConnections(rules, conns, i + 1)

\* C7: the connection list of every command sent has one entry per resolved
\* connection request and no entry, nil or other, for a dropped one.
C7_DroppedConnectionLeavesNoEntry ==
    \A k \in 1..Len(queue) :
        LET sent == queue[k].OutboundConnections
            resolved == ResolvedConnections(stored.Rules, req.OutboundConnections, 1)
        IN  /\ Len(sent) = Len(resolved)
            /\ \A i \in 1..Len(sent) :
                    /\ ~sent[i].isNil
                    /\ sent[i].OutboundName = resolved[i].SourceOutboundName
                    /\ sent[i].TargetInstanceId = resolved[i].TargetInstanceId
                    /\ sent[i].InboundName = resolved[i].TargetInboundName

\* C8: every external call of Deploy carries the default timeout, so Deploy and
\* its lookups are never left waiting for a stalled dependency.
C8_EveryCallBounded ==
    /\ \A i \in 1..Len(trace) : trace[i].external => trace[i].bounded
    /\ pc # "hung"
    /\ \A t \in TargetIds : g[t].state # "hung"

\* C9: whenever Deploy has returned and the compensating RemoveAppInstance
\* failed, that call was the last one made and the error returned is the error
\* of the step it compensates, AddParametrizedDescriptor or UpdateAppInstance.
C9_CompensationNeverMasks ==
    (Returned /\ Failed("RemoveAppInstance") # {}) =>
        \A j \in Failed("RemoveAppInstance") :
            /\ j = Len(trace) /\ j > 1
            /\ trace[j - 1].op \in {"AddParametrizedDescriptor", "UpdateAppInstance"}
            /\ ~trace[j - 1].ok
            /\ IsErr(ret.err) /\ ret.err.msg = trace[j - 1].op

C9_Witness ==
    /\ Returned
    /\ Failed("RemoveAppInstance") # {}
    /\ Failed("UpdateAppInstance") # {}
    /\ instances = {NewInstanceId}

\* The inbound names requested on target t that the instance does not declare.
Lacking(t) ==
    {instanceList[t][i] : i \in 1..Len(instanceList[t])} \ g[t].declared

\* Every lookup has finished and succeeded, target t lacks exactly the
\* requested inbound n, and every other target has all its requested inbounds.
OneFailingTarget(t, n) ==
    /\ t \in DOMAIN instanceList
    /\ \A u \in DOMAIN instanceList : g[u].state = "done" /\ g[u].found
    /\ Lacking(t) = {n}
    /\ \A u \in DOMAIN instanceList \ {t} : Lacking(u) = {}

\* C10: when checkConnections passes its barrier (the required outbounds being
\* filled) with exactly one target instance lacking exactly one requested
\* inbound, Deploy returns the failed-precondition error whose parameters are
\* that instance id and that inbound name, whatever the order of the results.
C10_OneFailingTargetReported ==
    [][(pc = "wait" /\ pc' # "wait") =>
        \A t \in TargetIds, n \in InboundNames :
            OneFailingTarget(t, n) =>
                /\ ret'.done
                /\ ret'.err = Err("FailedPrecondition", NoInboundFound, <<t, n>>)]_vars

C10_Witness ==
    /\ Returned
    /\ Failed("checkConnections") # {}
    /\ Cardinality(DOMAIN instanceList) = 2
    /\ \E t \in TargetIds, n \in InboundNames : OneFailingTarget(t, n)
    /\ respond[1].Result
    /\ ret.err.msg = NoInboundFound

\* The targets whose lookup failed or did not find a requested inbound name.
FailingTargets ==
    {t \in DOMAIN instanceList : ~g[t].found \/ Lacking(t) # {}}

\* C11: when checkConnections leaves its barrier (the required-outbound step
\* having passed), Deploy goes on to the parametrization exactly when the
\* lookup of every distinct target succeeded and found every inbound name
\* requested on it, whatever the order of the results; otherwise Deploy returns
\* a failed-precondition error whose first parameter is a target that failed.
C11_VerdictOfConnectionCheck ==
    [][(pc = "wait" /\ pc' # "wait") =>
        /\ Succeeded("checkRequiredOutbounds") # {}
        /\ (pc' = "parametrize") <=> (FailingTargets = {})
        /\ (pc' = "parametrize") => ~ret'.done
        /\ FailingTargets # {} =>
                /\ ret'.done
                /\ ret'.err.code = "FailedPrecondition"
                /\ ret'.err.msg \in {NoInboundFound, InstanceNotFound}
                /\ ret'.err.params # <<>>
                /\ ret'.err.params[1] \in FailingTargets]_vars

C11_Witness ==
    /\ Returned
    /\ Failed("checkConnections") # {}
    /\ FailingTargets = TargetIds
    /\ \E t \in TargetIds : ~g[t].found
    /\ \E t \in TargetIds : g[t].found /\ Lacking(t) # {}

\* The positions of the descriptor's required outbound interfaces that are the
\* source of no requested connection.
UnfilledRequired ==
    {i \in 1..Len(desc.OutboundNetInterfaces) :
        /\ desc.OutboundNetInterfaces[i].Required
        /\ \A k \in 1..Len(req.OutboundConnections) :
                req.OutboundConnections[k].SourceOutboundName
                    # desc.OutboundNetInterfaces[i].Name}

\* C12: the required-outbound step fails exactly when some required outbound
\* interface of the descriptor is the source of no requested connection; Deploy
\* has then returned the failed-precondition error "Required outbound not
\* filled" whose only parameter is the name of the first such interface in
\* descriptor order, and no lookup was launched.
C12_RequiredOutboundFirst ==
    At("checkRequiredOutbounds") # {} =>
        /\ Failed("checkRequiredOutbounds") # {} <=> UnfilledRequired # {}
        /\ Failed("checkRequiredOutbounds") # {} =>
                /\ Returned
                /\ ret.err.code = "FailedPrecondition"
                /\ ret.err.msg = RequiredOutboundNotFilled
                /\ \E i \in UnfilledRequired :
                        /\ \A j \in UnfilledRequired : i <= j
                        /\ ret.err.params = <<desc.OutboundNetInterfaces[i].Name>>
                /\ At("GetAppInstance") = {}
                /\ \A t \in TargetIds : g[t].state = "none"
                /\ respond = <<>>

C12_Witness ==
    /\ Returned
    /\ Failed("checkRequiredOutbounds") # {}
    /\ UnfilledRequired = {2}
    /\ Len(desc.OutboundNetInterfaces) = 2
    /\ Len(req.OutboundConnections) = 2
    /\ ret.err.params = <<"o2">>

\* The lookups made for target t so far.
LookupsOf(t) == {i \in At("GetAppInstance") : trace[i].arg = t}

\* C13: when checkConnections leaves its barrier and reads the results, every
\* launched lookup has been made, failed ones included, every goroutine has
\* delivered its result and finished, and the channel holds exactly one result
\* per launched lookup; and the end of one lookup, whatever its outcome,
\* changes nothing of the sibling goroutines.
C13_Barrier ==
    [][/\ (pc = "wait" /\ pc' # "wait") =>
            /\ \A t \in DOMAIN instanceList :
                    /\ g[t].state = "done"
                    /\ Cardinality(LookupsOf(t)) = 1
                    /\ \E i \in 1..Len(respond) : respond[i] = g[t].resp
            /\ Len(respond) = Cardinality(DOMAIN instanceList)
       /\ \A t \in TargetIds :
            (pc = "wait" /\ g[t].state = "running" /\ g'[t].state # "running") =>
                \A u \in TargetIds \ {t} : g'[u] = g[u]]_vars

C13_Witness ==
    /\ Returned
    /\ Failed("checkConnections") # {}
    /\ Cardinality(DOMAIN instanceList) = 2
    /\ Len(respond) = 2
    /\ ~respond[1].Result
    /\ respond[2].Result
    /\ Failed("GetAppInstance") # {} /\ Succeeded("GetAppInstance") # {}
    /\ \E i \in Failed("GetAppInstance"), j \in Succeeded("GetAppInstance") : i < j

\* The inbound names the request asks for on target t, in request order.
RequestedOn(t) ==
    LET ToTarget(c) == c.TargetInstanceId = t
        sel == SelectSeq(req.OutboundConnections, ToTarget)
    IN  [i \in 1..Len(sel) |-> sel[i].TargetInboundName]

\* C14: no target is looked up twice and only targets of requested connections
\* are looked up; while checkConnections waits at its barrier there is one
\* goroutine per distinct target instance id of the request and none for any
\* other id, each has made at most one lookup (exactly one once it has left
\* the lookup), and each holds every inbound name requested on its instance
\* across all connections.
C14_OneLookupPerTarget ==
    /\ \A t \in TargetIds :
            /\ Cardinality(LookupsOf(t)) <= 1
            /\ LookupsOf(t) # {} => RequestedOn(t) # <<>>
    /\ pc = "wait" =>
            \A t \in TargetIds :
                /\ (g[t].state # "none") <=> (RequestedOn(t) # <<>>)
                /\ (t \in DOMAIN instanceList) <=> (RequestedOn(t) # <<>>)
                /\ t \in DOMAIN instanceList =>
                        /\ instanceList[t] = RequestedOn(t)
                        /\ Cardinality(LookupsOf(t)) =
                                (IF g[t].state = "running" THEN 0 ELSE 1)

C14_Witness ==
    /\ pc = "wait"
    /\ Len(req.OutboundConnections) = 2
    /\ DOMAIN instanceList = {"t1"}
    /\ instanceList["t1"] = <<"in2", "in1">>
    /\ g["t1"].state = "done"
    /\ Len(trace) = 4

\* The position in the channel of the first failed result.
FirstFailed ==
    CHOOSE i \in 1..Len(respond) :
        ~respond[i].Result /\ \A j \in 1..(i - 1) : respond[j].Result

Removals ==
    LET IsRemoval(c) == c.op = "RemoveConnection"
        made == SelectSeq(trace, IsRemoval)
    IN  [i \in 1..Len(made) |-> made[i].arg]

\* The inbound, then the outbound connections of the fetched instance.
ConnectionsOfInstance ==
    expandInstance.InboundConnections \o expandInstance.OutboundConnections

\* C16: once the guard of Undeploy has been evaluated on a fetched instance
\* with at least one inbound connection and a request without user
\* confirmation, Undeploy has returned a failed-precondition error, no
\* RemoveConnection call was made and nothing was sent to the queue.
C16_GuardRefuses ==
    (/\ At("guard") # {}
     /\ Len(expandInstance.InboundConnections) > 0
     /\ ~undeployRequest.UserConfirmation) =>
        /\ uret.done
        /\ uret.err.code = "FailedPrecondition"
        /\ At("RemoveConnection") = {}
        /\ At("Send") = {}
        /\ queue = <<>>

C16_Witness ==
    /\ uret.done
    /\ Failed("guard") # {}
    /\ Len(expandInstance.InboundConnections) = 2
    /\ Len(expandInstance.OutboundConnections) = 2
    /\ Len(trace) = 4

\* C17: once Undeploy has passed the guard and reached the send, the
\* RemoveConnection calls made are exactly one per inbound connection and
\* then one per outbound connection of the fetched instance, each with that
\* connection; and every one of them precedes the send in the trace.
C17_RemovalsBeforeEnqueue ==
    /\ (Succeeded("guard") # {} /\ upc \in {"Send", "done"}) =>
            Removals = ConnectionsOfInstance
    /\ \A i \in At("Send") :
            /\ Succeeded("guard") # {}
            /\ \A j \in At("RemoveConnection") : j < i
            /\ Cardinality(At("RemoveConnection")) = Len(ConnectionsOfInstance)
    /\ queue # <<>> => Succeeded("Send") # {}

C17_Witness ==
    /\ uret.done
    /\ queue = <<UndeployCommand>>
    /\ undeployRequest.UserConfirmation
    /\ Len(expandInstance.InboundConnections) = 2
    /\ Len(expandInstance.OutboundConnections) = 2
    /\ Succeeded("RemoveConnection") = At("RemoveConnection")

\* C18: whenever Undeploy has returned after a RemoveConnection call failed,
\* a removal was still attempted for every inbound and every outbound
\* connection of the fetched instance, the send was attempted, and if the
\* send succeeded Undeploy returned success with the command in the queue.
C18_RemovalFailureSwallowed ==
    (uret.done /\ Failed("RemoveConnection") # {}) =>
        /\ Removals = ConnectionsOfInstance
        /\ Cardinality(At("Send")) = 1
        /\ \A i \in At("Send") : i = Len(trace)
        /\ Succeeded("Send") # {} =>
                /\ ~IsErr(uret.err)
                /\ queue = <<UndeployCommand>>
        /\ IsErr(uret.err) => uret.err.msg = "Send"

C18_Witness ==
    /\ uret.done
    /\ ~IsErr(uret.err)
    /\ Cardinality(At("RemoveConnection")) = 4
    /\ Failed("RemoveConnection") = At("RemoveConnection")
    /\ queue = <<UndeployCommand>>

\* C19 as stated: Undeploy has returned an error exactly when the send to
\* the queue failed.
C19_SendSoleFailure ==
    uret.done => (IsErr(uret.err) <=> Failed("Send") # {})

\* C19 amended: Undeploy has returned an error exactly when the fetch of
\* the instance failed, the guard refused, or the send to the queue failed,
\* and the error is that of the step; failed listings and failed removals
\* never make it return an error, and a failed send leaves the queue empty.
C19_HardFailures ==
    uret.done =>
        /\ IsErr(uret.err) <=> \/ Failed("GetAppInstance") # {}
                               \/ Failed("guard") # {}
                               \/ Failed("Send") # {}
        /\ Failed("GetAppInstance") # {} => uret.err.msg = "GetAppInstance"
        /\ Failed("guard") # {} =>
                uret.err = Err("FailedPrecondition", InboundConnectionsLeft, <<>>)
        /\ Failed("Send") # {} => uret.err.msg = "Send" /\ queue = <<>>

C19_Witness ==
    /\ uret.done
    /\ Failed("Send") # {}
    /\ IsErr(uret.err)
    /\ Failed("ListInboundConnections") # {}
    /\ Failed("RemoveConnection") # {}

\* ------------------------------------------------- parametrized copy claims

\* C20: once CreateParametrizedDescriptor has returned, with or without a
\* parameter applied, and after any later write to a collection of the copy,
\* no map, slice or struct reachable from the copy is reachable from the
\* original descriptor, and everything reachable from the original descriptor
\* holds what it held when the call was made.
C20_CopySharesNothing ==
    cpc \in {"returned", "written"} =>
        /\ Reachable(heap, copied) \cap Reachable(heap, original) = {}
        /\ \A a \in Reachable(InitialHeap(shape), original) :
                heap[a] = InitialHeap(shape)[a]

\* ---------------------------------------------------- parametrization claims

\* The instance parameters of the call, the definition each one names, and
\* the ways in which one of them fails.
GivenParameters ==
    IF parametrize.parameters.isNil THEN <<>> ELSE parametrize.parameters.Parameters
Declarations(i) ==
    {k \in 1..Len(parametrize.descriptor.Parameters) :
        parametrize.descriptor.Parameters[k].Name = GivenParameters[i].ParameterName}
Declaration(i) ==
    parametrize.descriptor.Parameters[
        CHOOSE k \in Declarations(i) : \A j \in Declarations(i) : k <= j]
Undeclared(i) == Declarations(i) = {}
CoercionFails(i) ==
    /\ ~Undeclared(i)
    /\ Declaration(i).Type = "BOOLEAN"
    /\ GivenParameters[i].Value \notin ParseBoolTrue \cup ParseBoolFalse
EnumOutside(i) ==
    /\ ~Undeclared(i)
    /\ Declaration(i).Type = "ENUM"
    /\ \A k \in 1..Len(Declaration(i).EnumValues) :
            Declaration(i).EnumValues[k] # GivenParameters[i].Value
PathUpdateFails(i) ==
    /\ ~Undeclared(i) /\ ~CoercionFails(i) /\ ~EnumOutside(i)
    /\ Declaration(i).Path = ""
ParameterFails(i) ==
    Undeclared(i) \/ CoercionFails(i) \/ EnumOutside(i) \/ PathUpdateFails(i)
FirstFailing ==
    {i \in 1..Len(GivenParameters) :
        ParameterFails(i) /\ \A j \in 1..(i - 1) : ~ParameterFails(j)}

\* C21: when the call has returned and some instance parameter fails (its name
\* is undeclared, its value cannot be coerced, its enum value is outside the
\* declared set, or its path cannot be updated), the descriptor returned is nil
\* and an error is returned, whatever parameters came before; the error of an
\* enum value outside the declared set is InvalidArgument; and an error never
\* comes with a descriptor.
C21_AllOrNothing ==
    parametrize.pc = "returned" =>
        /\ IsErr(parametrize.ret.err) => parametrize.ret.pd = NilParametrized
        /\ FirstFailing # {} =>
                IsErr(parametrize.ret.err) /\ parametrize.ret.pd = NilParametrized
        /\ \A i \in FirstFailing :
                EnumOutside(i) => parametrize.ret.err.code = "InvalidArgument"

C21_Witness ==
    /\ parametrize.pc = "returned"
    /\ FirstFailing = {2}
    /\ EnumOutside(2)
    /\ parametrize.descriptor.MultiClusterReplica
    /\ parametrize.ret.pd = NilParametrized
    /\ parametrize.ret.err.code = "InvalidArgument"

\* C22 (as stated): when the first failing instance parameter has an
\* undeclared name, the error returned is NotFound, for every descriptor.
C22_UndeclaredIsNotFound ==
    parametrize.pc = "returned" =>
        \A i \in FirstFailing :
            Undeclared(i) => parametrize.ret.err.code = "NotFound"

\* C22 (amended): when the first failing instance parameter has an undeclared
\* name, no descriptor is returned and the error is NotFound if the descriptor
\* declares at least one parameter, InvalidArgument if it declares none.
C22_UndeclaredNotFoundIfAnyDeclared ==
    parametrize.pc = "returned" =>
        \A i \in FirstFailing :
            Undeclared(i) =>
                /\ parametrize.ret.pd = NilParametrized
                /\ parametrize.ret.err.code =
                        (IF Len(parametrize.descriptor.Parameters) = 0
                         THEN "InvalidArgument" ELSE "NotFound")

C22_Witness ==
    /\ parametrize.pc = "returned"
    /\ FirstFailing = {2}
    /\ Undeclared(2)
    /\ Len(parametrize.descriptor.Parameters) > 0
    /\ parametrize.ret.err.code = "NotFound"
    /\ parametrize.ret.err.params = <<GivenParameters[2].ParameterName>>

\* C23: when the call was given no instance parameters (a nil or an empty
\* list) and has returned, it returned no error and a descriptor whose name,
\* rules and group deployment flag equal those of the descriptor given, field
\* for field.
C23_UnmodifiedCopy ==
    (parametrize.pc = "returned" /\ GivenParameters = <<>>) =>
        /\ ~IsErr(parametrize.ret.err)
        /\ ~parametrize.ret.pd.isNil
        /\ parametrize.ret.pd.Name = parametrize.descriptor.Name
        /\ parametrize.ret.pd.Rules = parametrize.descriptor.Rules
        /\ parametrize.ret.pd.MultiClusterReplica =
                parametrize.descriptor.MultiClusterReplica

\* The instance parameters whose definition addresses the given path.
Addressing(path) ==
    {i \in 1..Len(GivenParameters) : ~Undeclared(i) /\ Declaration(i).Path = path}

ToAdd == addDescriptor.request
Validated == addDescriptor.pc # "call"
ValidationFailed == Failed("ValidateDescriptorParameters") # {}
ValidationPassed == Succeeded("ValidateDescriptorParameters") # {}

\* The names of the services of all the groups of the descriptor.
AllServiceNames ==
    UNION {{ToAdd.Groups[k].Services[i].Name : i \in 1..Len(ToAdd.Groups[k].Services)} :
            k \in 1..Len(ToAdd.Groups)}
RepeatedGroup ==
    \E i, j \in 1..Len(ToAdd.Groups) :
        i # j /\ ToAdd.Groups[i].Name = ToAdd.Groups[j].Name
RepeatedService ==
    \E k \in 1..Len(ToAdd.Groups) :
        \E i, j \in 1..Len(ToAdd.Groups[k].Services) :
            i # j /\ ToAdd.Groups[k].Services[i].Name = ToAdd.Groups[k].Services[j].Name
DanglingDeployAfter ==
    \E k \in 1..Len(ToAdd.Groups) :
        \E i \in 1..Len(ToAdd.Groups[k].Services) :
            \E a \in 1..Len(ToAdd.Groups[k].Services[i].DeployAfter) :
                ToAdd.Groups[k].Services[i].DeployAfter[a] \notin AllServiceNames
TargetResolves(rule) ==
    \E k \in 1..Len(ToAdd.Groups) :
        /\ ToAdd.Groups[k].Name = rule.TargetServiceGroupName
        /\ \E i \in 1..Len(ToAdd.Groups[k].Services) :
                ToAdd.Groups[k].Services[i].Name = rule.TargetServiceName
\* The name a value binds, "" when the value holds no service binding; the
\* binding names of the services of the descriptor.
BoundName(value) ==
    IF Len(value) >= 2 /\ value[1] = "NALEJ_SERV_" THEN value[2] ELSE ""
BindingNames ==
    {IF n = "service1" THEN "SERVICE1" ELSE IF n = "service2" THEN "SERVICE2"
     ELSE "SERVICE3" : n \in AllServiceNames}
DanglingBinding ==
    \E key \in DOMAIN ToAdd.EnvironmentVariables :
        /\ BoundName(ToAdd.EnvironmentVariables[key]) # ""
        /\ BoundName(ToAdd.EnvironmentVariables[key]) \notin BindingNames
AssignmentInKey ==
    \E key \in DOMAIN ToAdd.EnvironmentVariables :
        \E i \in 1..Len(key) : key[i] = "="
DeviceRuleWithAuth(rule) ==
    /\ rule.Access = "DEVICE_GROUP"
    /\ rule.AuthServiceGroupName # "" \/ rule.AuthServices # <<>>

\* C25: the add of the descriptor store is called only after a validation that
\* passed; when the validation fails the call returns the validation error,
\* the store's add is never called and the store holds nothing; and the store
\* holds a descriptor only after an add that succeeded.
C25_AddOnlyAfterValidation ==
    /\ Validated => At("ValidateDescriptorParameters") = {1}
    /\ \A i \in At("AddAppDescriptor") :
            \E j \in Succeeded("ValidateDescriptorParameters") : j < i
    /\ ValidationFailed =>
            /\ At("AddAppDescriptor") = {}
            /\ addDescriptor.descriptors = <<>>
            /\ addDescriptor.ret.done
            /\ addDescriptor.ret.err.code = "InvalidArgument"
    /\ addDescriptor.descriptors # <<>> =>
            /\ Succeeded("AddAppDescriptor") # {}
            /\ addDescriptor.descriptors = <<ToAdd>>

C25_Witness ==
    /\ ValidationFailed
    /\ Len(ToAdd.Groups) = 2
    /\ addDescriptor.ret.done
    /\ IsErr(addDescriptor.ret.err)
    /\ addDescriptor.descriptors = <<>>

\* C26: once validated, a descriptor with zero service groups has failed the
\* validation, whatever its rules and environment variables are.
C26_NoGroupsFails ==
    (Validated /\ Len(ToAdd.Groups) = 0) =>
        ValidationFailed /\ IsErr(addDescriptor.ret.err)

C26_Witness ==
    /\ Validated
    /\ Len(ToAdd.Groups) = 0
    /\ Len(ToAdd.Rules) > 0
    /\ DOMAIN ToAdd.EnvironmentVariables # {}
    /\ ValidationFailed

\* C27: once validated, a descriptor in which two groups share a name, or two
\* services of one group share a name, has failed the validation; a descriptor
\* with at least one group, without rules, variables and deploy_after names,
\* in which no two groups and no two services of one group share a name, has
\* passed, also when services of different groups share a name.
C27_RepeatedNamesFail ==
    Validated =>
        /\ (RepeatedGroup \/ RepeatedService) => ValidationFailed
        /\ ( /\ ~RepeatedGroup /\ ~RepeatedService
             /\ Len(ToAdd.Groups) > 0
             /\ ToAdd.Rules = <<>> /\ ToAdd.EnvironmentVariables = <<>>
             /\ ~DanglingDeployAfter ) => ValidationPassed

C27_Witness ==
    /\ Validated
    /\ RepeatedService /\ ~RepeatedGroup
    /\ Len(ToAdd.Groups) = 2
    /\ ValidationFailed

C29_DeployAfterMustResolve ==
    Validated =>
        /\ DanglingDeployAfter => ValidationFailed
        /\ ( /\ Len(ToAdd.Groups) > 0
             /\ ~RepeatedGroup /\ ~RepeatedService
             /\ ToAdd.Rules = <<>> /\ ToAdd.EnvironmentVariables = <<>> ) =>
                (ValidationPassed <=> ~DanglingDeployAfter)

C29_Witness ==
    /\ Validated
    /\ Len(ToAdd.Groups) = 2
    /\ Len(ToAdd.Groups[1].Services) = 2
    /\ ToAdd.Groups[1].Services[1].DeployAfter = <<"service2", "service5">>
    /\ ValidationFailed

\* C30: once validated, a descriptor with a device-group rule that carries an
\* auth group or auth services has failed the validation; a descriptor with
\* groups whose rules all have device-group access, carry device-group names
\* and no auth fields, and target a service of the descriptor, and whose
\* variables have well-formed keys and bindings to services of the
\* descriptor only, has passed.
C30_DeviceRuleWithoutAuth ==
    Validated =>
        /\ (\E r \in 1..Len(ToAdd.Rules) : DeviceRuleWithAuth(ToAdd.Rules[r])) =>
                ValidationFailed
        /\ ( /\ Len(ToAdd.Groups) > 0
             /\ ~RepeatedGroup /\ ~RepeatedService /\ ~DanglingDeployAfter
             /\ ToAdd.Rules # <<>>
             /\ \A r \in 1..Len(ToAdd.Rules) :
                    /\ ToAdd.Rules[r].Access = "DEVICE_GROUP"
                    /\ ~DeviceRuleWithAuth(ToAdd.Rules[r])
                    /\ ToAdd.Rules[r].DeviceGroupNames # <<>>
                    /\ TargetResolves(ToAdd.Rules[r])
             /\ ~AssignmentInKey /\ ~DanglingBinding ) =>
                ValidationPassed

C30_Witness ==
    /\ Validated
    /\ Len(ToAdd.Groups) = 2
    /\ Len(ToAdd.Rules) = 1
    /\ ToAdd.Rules[1].Access = "DEVICE_GROUP"
    /\ ToAdd.Rules[1].DeviceGroupNames = <<"deviceGroup1">>
    /\ ToAdd.Rules[1].AuthServiceGroupName = "g2"
    /\ ToAdd.Rules[1].AuthServices = <<"service3">>
    /\ TargetResolves(ToAdd.Rules[1])
    /\ DOMAIN ToAdd.EnvironmentVariables # {}
    /\ ValidationFailed

\* A rule from services to a service: application-services access, callers
\* given by an auth group and auth services, no device group.
ServiceToService(rule) ==
    /\ rule.Access = "APP_SERVICES"
    /\ rule.AuthServiceGroupName # ""
    /\ rule.AuthServices # <<>>
    /\ rule.DeviceGroupNames = <<>>

\* C31: a descriptor with a pure service-to-service rule (application-services
\* access, auth group and auth services, no device group) never passes the
\* validation, even when all its references resolve.  Violated: rule1 of
\* CreateFullAppDescriptor is such a rule and that descriptor is valid.
C31_ServiceToServiceRejected ==
    (Validated /\ \E r \in 1..Len(ToAdd.Rules) : ServiceToService(ToAdd.Rules[r]))
        => ValidationFailed

C33_UndeclaredOutboundRejected ==
    Succeeded("checkConnections") # {} =>
        \A c \in 1..Len(req.OutboundConnections) :
            \E o \in 1..Len(desc.OutboundNetInterfaces) :
                desc.OutboundNetInterfaces[o].Name =
                    req.OutboundConnections[c].SourceOutboundName

\* The responses the goroutine of target t has put on the channel.
ResponsesOf(t) == {i \in 1..Len(respond) : respond[i].InstanceId = t}

\* C38: while checkConnections waits or has failed, each goroutine that is
\* done has sent exactly one response and no other goroutine has sent any; a
\* goroutine about to send finds room in the channel; and once every lookup
\* has returned, checkConnections gets past the barrier and ends, also with
\* no target instance at all.
C38_OneResponseAndTermination ==
    /\ [](\A t \in DOMAIN instanceList :
            /\ Cardinality(ResponsesOf(t)) = (IF g[t].state = "done" THEN 1 ELSE 0)
            /\ g[t].state = "responding" =>
                    Len(respond) < Cardinality(DOMAIN instanceList))
    /\ [](Len(respond) <= Cardinality(DOMAIN instanceList))
    /\ (pc = "wait" /\ \A t \in DOMAIN instanceList :
                            g[t].state \in {"responding", "done"})
            ~> (At("checkConnections") # {})

\* Both goroutines have answered, one after a failed lookup and one after a
\* missing inbound, and checkConnections has ended with an error.
C38_Witness ==
    /\ Failed("checkConnections") # {}
    /\ Len(respond) = 2
    /\ \E i, j \in 1..2 :
            /\ ~respond[i].Result /\ respond[i].InboundName = ""
            /\ ~respond[j].Result /\ respond[j].InboundName # ""
    /\ \A t \in DOMAIN instanceList : g[t].state = "done"

\* The steps of Deploy before the instance is created that have failed.
FailedBeforeCreation ==
    Failed("GetAppDescriptor") \cup Failed("checkAllRequiredParametersAreFilled")
        \cup Failed("checkRequiredOutbounds") \cup Failed("GetAppInstance")
        \cup Failed("checkConnections") \cup Failed("CreateParametrizedDescriptor")

\* C39: once the descriptor fetch, the required-parameter check, the connection
\* check or the parametrization has failed, Deploy has issued and will issue
\* no AddAppInstance, AddParametrizedDescriptor, UpdateAppInstance,
\* RemoveAppInstance or Send, and the instance store, the parametrized
\* descriptors and the queue are as they were.
C39_FailureBeforeCreationChangesNothing ==
    FailedBeforeCreation # {} =>
        /\ \A op \in {"AddAppInstance", "AddParametrizedDescriptor",
                       "UpdateAppInstance", "RemoveAppInstance", "Send"} :
                At(op) = {}
        /\ instances = {} /\ parametrized = {} /\ queue = <<>>
        /\ Returned => IsErr(ret.err)

\* Deploy has returned the error of the parametrization, the last step
\* before the instance is created.
C39_Witness ==
    /\ Returned
    /\ Failed("CreateParametrizedDescriptor") # {}
    /\ Succeeded("checkConnections") # {}
    /\ IsErr(ret.err)
    /\ instances = {}

\* C40: Deploy calls Send at most once; before a Send there is a successful
\* AddAppInstance and a successful AddParametrizedDescriptor and no
\* RemoveAppInstance; the queue holds at most one command, exactly when Send
\* succeeded, and the command names the instance created, which is stored.
C40_OneCommandForTheCreatedInstance ==
    /\ Cardinality(At("Send")) <= 1
    /\ \A i \in At("Send") :
            /\ \E j \in Succeeded("AddAppInstance") : j < i
            /\ \E j \in Succeeded("AddParametrizedDescriptor") : j < i
            /\ \A j \in At("RemoveAppInstance") : ~(j < i)
    /\ Len(queue) = Cardinality(Succeeded("Send"))
    /\ \A k \in 1..Len(queue) :
            /\ queue[k].AppInstanceId = NewInstanceId
            /\ queue[k].AppInstanceId \in instances

\* The command is in the queue after the update of an instance with rules.
C40_Witness ==
    /\ ReturnedOk
    /\ Len(queue) = 1
    /\ Succeeded("UpdateAppInstance") # {}
    /\ queue[1].AppInstanceId \in instances

\* ------------------------------------------- claims on the Undeploy guard

\* C37: an undeploy command enqueued for a request without user confirmation
\* means the network store held no inbound connection of the instance when
\* the instance was expanded, also when the listing of the inbound
\* connections failed.  Violated: a failed listing leaves the list of the
\* expanded instance empty and the guard lets the request through.
C37_NoCommandOverInbounds ==
    (queue # <<>> /\ ~undeployRequest.UserConfirmation) => network.inbound = <<>>

\* ------------------------------------------------ claims on concurrent calls

\* What RemoveAppDescriptor has asked of the store.
RemoveCalls(op) ==
    {i \in 1..Len(calls.remove.log) : calls.remove.log[i].op = op}

\* C34: RemoveAppDescriptor calls the store's remove only after a listing
\* that succeeded and held no instance of the descriptor; once it has
\* returned, a failed listing means it returned the listing error without
\* calling remove, and a listed instance of the descriptor means it returned
\* a failed-precondition error without calling remove.
C34_RemoveOnlyUnreferenced ==
    /\ Cardinality(RemoveCalls("ListAppInstances")) <= 1
    /\ RemoveCalls("RemoveAppDescriptor") # {} =>
            /\ calls.remove.log[1].op = "ListAppInstances" /\ calls.remove.log[1].ok
            /\ \A inst \in calls.remove.listed : inst.AppDescriptorId # "d1"
    /\ calls.remove.ret.done =>
            /\ ~calls.remove.log[1].ok =>
                    /\ RemoveCalls("RemoveAppDescriptor") = {}
                    /\ calls.remove.ret.err.code \in {"Internal", "DeadlineExceeded"}
                    /\ calls.remove.ret.err.msg = "ListAppInstances"
            /\ (\E inst \in calls.remove.listed : inst.AppDescriptorId = "d1") =>
                    /\ RemoveCalls("RemoveAppDescriptor") = {}
                    /\ calls.remove.ret.err.code = "FailedPrecondition"

\* The list held an instance of the descriptor and one of another
\* descriptor, and the call has returned the failed-precondition error.
C34_Witness ==
    /\ calls.pc = "run"
    /\ calls.remove.ret.done
    /\ \E a, b \in calls.remove.listed :
            a.AppDescriptorId = "d1" /\ b.AppDescriptorId = "d2"
    /\ calls.remove.ret.err.code = "FailedPrecondition"
    /\ calls.present

\* C35: a step of one Deploy call removes no instance but the one the store
\* added for this call, and enqueues no command but one naming that instance.
C35_CallsAreIsolated ==
    [][calls.pc = "run" =>
        \A p \in 1..MaxCalls :
            calls.deploy[p] # calls'.deploy[p] =>
                /\ \A inst \in calls.instances \ calls'.instances :
                        /\ inst.AppInstanceId[1] = "inst"
                        /\ calls.createdBy[inst.AppInstanceId[2]] = p
                /\ Len(calls'.queue) > Len(calls.queue) =>
                        LET id == calls'.queue[Len(calls'.queue)].AppInstanceId
                        IN  /\ Len(calls'.queue) = Len(calls.queue) + 1
                            /\ id[1] = "inst"
                            /\ calls.createdBy[id[2]] = p]_vars

\* The first call has rolled its instance back after the second call had
\* created its own, which is still stored, and the second call's command is
\* in the queue.
C35_Witness ==
    /\ calls.pc = "run"
    /\ calls.createdBy = <<1, 2>>
    /\ calls.deploy[1].ret.done /\ IsErr(calls.deploy[1].ret.err)
    /\ calls.deploy[2].ret.done /\ ~IsErr(calls.deploy[2].ret.err)
    /\ {i.AppInstanceId : i \in calls.instances} = {<<"inst", 2>>}
    /\ calls.queue = <<[AppInstanceId |-> <<"inst", 2>>]>>

\* C36: no instance of the descriptor is stored once RemoveAppDescriptor has
\* removed the descriptor.  Violated: a Deploy call adds its instance between
\* the listing and the removal.
C36_NoInstanceOfARemovedDescriptor ==
    (calls.pc = "run" /\ ~calls.present) =>
        \A inst \in calls.instances : inst.AppDescriptorId # "d1"

====
